---- MODULE Spec2Model ----
(***************************************************************************)
(* Symphony: decentralized task routing and consensus.                     *)
(*                                                                         *)
(* The module holds several state machines over one set of variables:     *)
(*   SpecTask    the Task contract and Agent.execute_task (decompose,      *)
(*               execute step k, serialization on every hop);              *)
(*   SpecNode    one AgentRunner: task loop, beacon loop, transport        *)
(*               dispatch into the ISEP queues, the BUSY/IDLE gate;        *)
(*   SpecISEP    ISEPClient.broadcast_and_collect and the beacon-response  *)
(*               handler;                                                  *)
(*   SpecUser    UserRunner: result listener, vote, timer, process_task    *)
(*               and the batch driver;                                     *)
(*   SpecVote    UserRunner._vote_results as a function of the answers;    *)
(*   SpecSelect  Agent._select_best_executors as a function of the         *)
(*               candidate list and K;                                     *)
(*   SpecBatch   UserRunner.process_task_batch over a whole batch, with    *)
(*               its checkpoints;                                          *)
(*   SpecQueues  the three ISEP queues, their handlers and receive_*;      *)
(*   SpecNet     NetworkAdapter.broadcast / send and the receive loop of   *)
(*               each neighbor;                                            *)
(*   SpecProcess one process_task call with its timer and the listener,    *)
(*               under fair scheduling of the three threads;               *)
(*   SpecLoops   the control structure of the four polling loops;          *)
(*   SpecFrame   the length-prefixed frame of one envelope, sent and       *)
(*               reassembled;                                              *)
(*   SpecMatch   CapabilityManager.match as a function of the tags and     *)
(*               the requirement;                                          *)
(*   SpecStart   main of the agent and user processes;                     *)
(*   SpecSymphony SymphonyOrchestrator.execute_task as a function of the   *)
(*               registered agents, the requirements and cot_count.        *)
(*   SpecDispatch NetworkAdapter._handle_message over the envelopes that   *)
(*               reach a node;                                             *)
(*   SpecChain   one problem from User.initiate_task through the task      *)
(*               loops of the agents to the user's result queue;           *)
(*   SpecCaps    CapabilityManager under add_capability and                *)
(*               remove_capability calls;                                  *)
(*   SpecBeacon  Beacon.__init__ and Beacon.from_dict.                     *)
(* A specification leaves the variables of the other machines at their     *)
(* initial value.                                                          *)
(***************************************************************************)
EXTENDS Integers, Sequences, FiniteSets, TLC

VARIABLES
    \* ---- Task contract (protocol/task_contract.py, agents/agent.py)
    task,           \* the Task value of one chain (object or wire dict)
    form,           \* "object" (held by a node) or "dict" (on the wire / received)
    transitions,    \* completed execute_task calls on this chain
    last            \* the operation that produced the current state, with the
                    \* collaborators' verdicts

taskVars == <<task, form, transitions, last>>

VARIABLES
    \* ---- one AgentRunner node (agent_register.py, infra/ISEP.py)
    subtask_queue,          \* ISEPClient.subtask_queue
    beacon_queue,           \* ISEPClient.beacon_queue
    first_task_received,    \* the gate: TRUE is BUSY
    beacon_enabled,         \* threading.Event, set = beacon listening allowed
    tpc,                    \* position of the _listen_tasks thread
    cur,                    \* the message _listen_tasks holds
    new_task,               \* the Task execute_task returned
    bpc,                    \* position of the _listen_beacon thread
    bcur,                   \* the beacon message _listen_beacon holds
    executing,              \* threads that are inside Agent.execute_task
    sent,                   \* messages this node handed to NetworkAdapter.send
    arrivals,               \* messages the transport has dispatched so far
    running                 \* AgentRunner.running

nodeVars == <<subtask_queue, beacon_queue, first_task_received, beacon_enabled,
              tpc, cur, new_task, bpc, bcur, executing, sent, arrivals, running>>

VARIABLES
    \* ---- ISEPClient.broadcast_and_collect (infra/ISEP.py)
    pending_tasks,      \* task_id -> list of BeaconResponse dicts
    cpc,                \* position of the thread inside broadcast_and_collect
    cbeacon,            \* the Beacon of the current / last call
    read_responses,     \* what the last call read from pending_tasks
    returned,           \* the candidates the last call returned
    foreign,            \* a response with another task id came in during the window
    calls,              \* broadcast_and_collect calls so far
    broadcasts,         \* the beacons of these calls, in call order
    handled             \* beacon responses dispatched so far

isepVars == <<pending_tasks, cpc, cbeacon, read_responses, returned, foreign, calls,
              broadcasts, handled>>

VARIABLES
    \* ---- pure functions under test
    fn_in,              \* the argument (answers, candidates, envelope, tags, ...)
    fn_k,               \* the second argument (num_executors, requirement, cot_count)
    fn_out,             \* the value returned, or the connection of SpecFrame
    fn_pc               \* "ready" before the call, "done" after it

pureVars == <<fn_in, fn_k, fn_out, fn_pc>>

VARIABLES
    \* ---- UserRunner (user_register.py)
    task_result_queue,  \* ISEPClient.task_result_queue of the user node
    current_answers,    \* answers of the current problem
    full_answers,       \* previous_results traces of the current problem
    final_result,       \* the published result
    result_event,       \* threading.Event the caller of process_task waits on
    answers,            \* every vote winner so far
    lpc,                \* position of the _listen_results thread
    lmsg,               \* the message _listen_results holds
    mpc,                \* position of the thread in process_task_batch
    index,              \* number of the problem being processed (0: none yet)
    timers,             \* problem -> state of the threading.Timer started for it
    ret,                \* problem -> what process_task returned for it
    tasks_to_save,      \* records not yet appended to the log
    processed_count,
    log,                \* one entry per _save_batch_results call
    initiated,          \* problems whose task has been delegated
    discovered,         \* problem -> the candidates its discovery returned
    delivered,          \* problem -> results delivered to the user for it
    fired_short,        \* problem -> its timer fired with fewer than cot_num
                        \*            results delivered for it
    published           \* the listener has published a vote winner for the
                        \* current problem and signalled the event

userVars == <<task_result_queue, current_answers, full_answers, final_result,
              result_event, answers, lpc, lmsg, mpc, index, timers, ret,
              tasks_to_save, processed_count, log, initiated, discovered,
              delivered, fired_short, published>>

VARIABLES
    \* ---- UserRunner.process_task_batch as a whole (user_register.py)
    tasks,              \* len(tasks): the problems carry unique_id 1..tasks
    max_tasks,          \* the max_tasks argument, 0 for None
    raised              \* exceptions caught or raised by the batch driver so far

batchVars == <<tasks, max_tasks, raised>>

VARIABLES
    \* ---- the three ISEP queues seen from their callers (infra/ISEP.py)
    enqueued,           \* queue name -> every message put into it, in order
    dequeued,           \* queue name -> every message a receive_* returned
    received            \* the last receive_* call and what it returned

queueVars == <<enqueued, dequeued, received>>

VARIABLES
    \* ---- NetworkAdapter: one broadcast and the receive loops of the
    \*      neighbors (infra/network_adapter.py)
    bc_msg_type,        \* msg_type argument of the broadcast
    exclude,            \* exclude argument of the broadcast
    todo,               \* neighbors the loop of broadcast has not reached yet
    spc,                \* position of the sending thread
    starget,            \* target_id of the send in progress
    conn,               \* neighbor -> state of the connection it accepted
    ack,                \* neighbor -> what the sender can read on the connection
    attempts,           \* neighbor -> send calls made for it
    send_ret,           \* neighbor -> what send returned
    handler_ran         \* neighbor -> a registered handler ran for the message

netVars == <<bc_msg_type, exclude, todo, spc, starget, conn, ack, attempts,
             send_ret, handler_ran>>

VARIABLES
    \* ---- the polling loops of a node as loops (network_adapter.py,
    \*      agent_register.py, user_register.py)
    loop_pc,            \* loop -> position of its thread
    inbox,              \* loop -> messages waiting for it
    arrived,            \* messages that have arrived for the loops so far
    failed,             \* loop -> handling a message has raised in it
    handled_after       \* loop -> a message was handled after one had raised

loopVars == <<loop_pc, inbox, arrived, failed, handled_after>>

VARIABLES
    \* ---- process start (main of agent_register.py and user_register.py)
    proc,               \* "agent" or "user": which main runs
    config_file,        \* what is at config_path
    bind_ok,            \* whether binding the server socket succeeds
    cot_arg,            \* --cot_num
    test_file,          \* whether ./test.jsonl exists
    start_pc,           \* position of main
    config,             \* the configuration load_config_from_file returned
    server_started,     \* NetworkAdapter._start_server has run
    loops_started,      \* the listener threads have been started
    printed             \* the messages written so far

startVars == <<proc, config_file, bind_ok, cot_arg, test_file, start_pc, config,
               server_started, loops_started, printed>>

VARIABLES
    \* ---- one problem from the user to its TaskResults (agents/user.py,
    \*      agent_register.py, agents/agent.py, infra/ISEP.py)
    instances,          \* task instances the user handed to delegate_task
    in_flight,          \* messages a successful send put on the wire
    node_queue,         \* subtask_queue of every agent node
    node_pc,            \* position of every node's _listen_tasks thread
    node_task,          \* the Task a node is about to assign
    executed,           \* per instance: the step ids executed, in order
    planned,            \* per instance: the length of the decomposed step list
    result_queue,       \* the user's task_result_queue
    broken              \* a send failed, a decomposition failed or returned
                        \* no step, or a discovery window returned nobody

chainVars == <<instances, in_flight, node_queue, node_pc, node_task, executed,
               planned, result_queue, broken>>

vars == <<taskVars, nodeVars, isepVars, pureVars, userVars, batchVars,
          queueVars, netVars, loopVars, startVars, chainVars>>

OnlyTask == UNCHANGED <<nodeVars, isepVars, pureVars, userVars, batchVars, queueVars, netVars,
        loopVars, startVars, chainVars>>
OnlyNode == UNCHANGED <<taskVars, isepVars, pureVars, userVars, batchVars, queueVars, netVars,
        loopVars, startVars, chainVars>>
OnlyISEP == UNCHANGED <<taskVars, nodeVars, pureVars, userVars, batchVars, queueVars, netVars,
        loopVars, startVars, chainVars>>
OnlyPure == UNCHANGED <<taskVars, nodeVars, isepVars, userVars, batchVars, queueVars, netVars,
        loopVars, startVars, chainVars>>
OnlyUser == UNCHANGED <<taskVars, nodeVars, isepVars, pureVars, batchVars, queueVars, netVars,
        loopVars, startVars, chainVars>>
OnlyBatch == UNCHANGED <<taskVars, nodeVars, isepVars, pureVars, queueVars, netVars, loopVars,
        startVars, chainVars>>
OnlyNet == UNCHANGED <<taskVars, nodeVars, isepVars, pureVars, userVars, batchVars,
        queueVars, loopVars, startVars, chainVars>>
OnlyLoops == UNCHANGED <<taskVars, nodeVars, isepVars, pureVars, userVars, batchVars,
        queueVars, netVars, startVars, chainVars>>
OnlyStart == UNCHANGED <<taskVars, nodeVars, isepVars, pureVars, userVars, batchVars,
        queueVars, netVars, loopVars, chainVars>>
OnlyChain == UNCHANGED <<taskVars, nodeVars, isepVars, pureVars, userVars, batchVars,
        queueVars, netVars, loopVars, startVars>>

(***************************************************************************)
(* Bounds                                                                  *)
(***************************************************************************)
MaxSteps == 3       \* longest step list the DAGGenerator returns
CotNum == 2         \* cot_num (consensus_count)

(***************************************************************************)
(* Python's "x or default" for str, list/dict and int operands.            *)
(***************************************************************************)
OrStr(s, d) == IF s = "" THEN d ELSE s
OrSeq(s, d) == IF s = <<>> THEN d ELSE s
OrSet(s, d) == IF s = {} THEN d ELSE s
OrInt(i, d) == IF i = 0 THEN d ELSE i

(***************************************************************************)
(* Task.  steps is the dict {"1": [instr, req], ..., "N": [instr, req]}:   *)
(* the sequence index i stands for the key str(i).  context is a dict,     *)
(* held as a set of <<key, value>> pairs.                                  *)
(***************************************************************************)
Uuids == {"t1"}
Problems == {"p1", "p2"}
UserIds == {"u1", "u2"}
GeneratorOutputs == {"4", "5"}      \* Generate() returns non-empty text
Background == "bg"

\* Task.__init__, branch taken when description or requirements is given;
\* kw holds the keyword arguments, uuid is what uuid.uuid4() returns
TaskHighLevel(kw, uuid) ==
    [ task_id          |-> OrStr(kw.task_id, uuid),
      description      |-> OrStr(kw.description, ""),
      requirements     |-> OrSeq(kw.requirements, <<>>),
      context          |-> OrSet(kw.context, {}),
      subtask_id       |-> OrInt(kw.subtask_id, 0),
      steps            |-> OrSeq(kw.steps, <<>>),
      previous_results |-> OrSeq(kw.previous_results, <<>>),
      original_problem |-> OrStr(kw.original_problem, OrStr(kw.description, "")),
      final_result     |-> OrStr(kw.final_result, ""),
      user_id          |-> OrStr(kw.user_id, "symphony_user"),
      api_mode         |-> "high_level" ]

\* Task.__init__, legacy branch (neither description nor requirements given)
TaskLegacy(kw, uuid) ==
    [ task_id          |-> uuid,
      description      |-> OrStr(kw.original_problem, ""),
      requirements     |-> [i \in 1..Len(kw.steps) |-> ToString(i)],
      context          |-> {<<"mode", "legacy">>},
      subtask_id       |-> OrInt(kw.subtask_id, 0),
      steps            |-> OrSeq(kw.steps, <<>>),
      previous_results |-> OrSeq(kw.previous_results, <<>>),
      original_problem |-> OrStr(kw.original_problem, ""),
      final_result     |-> OrStr(kw.final_result, ""),
      user_id          |-> OrStr(kw.user_id, "symphony_user"),
      api_mode         |-> "legacy" ]

\* Task.to_dict
to_dict(t) ==
    [ subtask_id       |-> t.subtask_id,
      steps            |-> t.steps,
      previous_results |-> t.previous_results,
      original_problem |-> t.original_problem,
      final_result     |-> t.final_result,
      user_id          |-> t.user_id,
      task_id          |-> t.task_id,
      description      |-> t.description,
      requirements     |-> t.requirements,
      context          |-> t.context,
      api_mode         |-> t.api_mode ]

\* a from_dict that does not hand task_id to the constructor
from_dict_new_id(data) ==
    IF "description" \in DOMAIN data \/ "requirements" \in DOMAIN data
    THEN TaskHighLevel([data EXCEPT !.task_id = ""], "t0")
    ELSE TaskLegacy(data, "t0")

\* Task.from_dict: a dict that has a description or requirements key goes
\* through the high-level constructor, any other through the legacy one
from_dict(data) ==
    IF "description" \in DOMAIN data \/ "requirements" \in DOMAIN data
    THEN TaskHighLevel(data, "t0")
    ELSE TaskLegacy(data, "t0")

\* User._create_initial_task
_create_initial_task(user_input, user_id, uuid) ==
    TaskLegacy([ subtask_id |-> 0, steps |-> <<>>, previous_results |-> <<>>,
                 original_problem |-> user_input, final_result |-> "",
                 user_id |-> user_id ], uuid)

(***************************************************************************)
(* The collaborators (BaseModel) are an oracle: extract_task returns       *)
(* (background, question, success), generate_task_dag (steps, dag_success) *)
(* and generate the text of one answer.                                    *)
(***************************************************************************)
\* generate_task_dag: steps[str(index + 1)] = [s, requirement]
StepList(n) == [i \in 1..n |-> <<"s" \o ToString(i), "math">>]

Oracles ==
    [ success : BOOLEAN, dag_success : BOOLEAN, n : 0..MaxSteps,
      result : GeneratorOutputs ]

\* what generate_task_dag returns: ({}, False) on failure
DagSteps(o) == IF o.dag_success THEN StepList(o.n) ELSE <<>>

\* _decompose_task with the increment moved inside "if success:"
_decompose_task_guarded(d, o) ==
    LET d1 == IF o.success
              THEN [d EXCEPT !.previous_results = Append(@, Background),
                             !.subtask_id = @ + 1]
              ELSE d
        d2 == IF o.success /\ o.dag_success
              THEN [d1 EXCEPT !.steps = DagSteps(o)]
              ELSE d1
    IN  from_dict(d2)

\* Agent._decompose_task, on the received dict
_decompose_task(d, o) ==
    LET d1 == IF o.success
              THEN [d EXCEPT !.previous_results = Append(@, Background)]
              ELSE d
        d2 == IF o.success /\ o.dag_success
              THEN [d1 EXCEPT !.steps = DagSteps(o)]
              ELSE d1
        d3 == [d2 EXCEPT !.subtask_id = @ + 1]
    IN  from_dict(d3)

\* task["steps"][str(subtask_id)] exists (otherwise KeyError)
HasStep(d) == d.subtask_id \in 1..Len(d.steps)

\* _execute_subtask storing only the newest result
_execute_subtask_latest(d, o) ==
    LET instruction == d.steps[d.subtask_id][1]
        d1 == [d EXCEPT !.previous_results =
                            <<instruction \o " Answer: " \o o.result>>]
        d2 == IF d.subtask_id = Len(d.steps)
              THEN [d1 EXCEPT !.final_result = o.result]
              ELSE d1
        d3 == [d2 EXCEPT !.subtask_id = @ + 1]
    IN  from_dict(d3)

\* Agent._execute_subtask, on the received dict
_execute_subtask(d, o) ==
    LET instruction == d.steps[d.subtask_id][1]
        d1 == [d EXCEPT !.previous_results =
                            Append(@, instruction \o " Answer: " \o o.result)]
        d2 == IF d.subtask_id = Len(d.steps)
              THEN [d1 EXCEPT !.final_result = o.result]
              ELSE d1
        d3 == [d2 EXCEPT !.subtask_id = @ + 1]
    IN  from_dict(d3)

\* Agent.execute_task
execute_task(d, o) ==
    IF d.subtask_id = 0 THEN _decompose_task(d, o) ELSE _execute_subtask(d, o)

\* execute_task raises instead of returning
Raises(d) == d.subtask_id # 0 /\ ~HasStep(d)

\* terminal detection, AgentRunner._listen_tasks
IsTerminal(t) == t.subtask_id = Len(t.steps) + 1

(***************************************************************************)
(* Initial values of the node's variables                                  *)
(***************************************************************************)
NoMsg == [sender |-> "", type |-> "none"]

NumProblems == 2        \* problems in the batch
MaxResults == 3         \* TaskResult messages delivered to the user

UserIdle ==
    /\ task_result_queue = <<>>
    /\ current_answers = <<>>
    /\ full_answers = <<>>
    /\ final_result = ""
    /\ result_event = FALSE
    /\ answers = <<>>
    /\ lpc = "recv"
    /\ lmsg = NoMsg
    /\ mpc = "next"
    /\ index = 0
    /\ timers = [i \in 1..NumProblems |-> "none"]
    /\ ret = [i \in 1..NumProblems |-> "<pending>"]
    /\ tasks_to_save = <<>>
    /\ processed_count = 0
    /\ log = <<>>
    /\ initiated = {}
    /\ discovered = [i \in 1..NumProblems |-> <<>>]
    /\ delivered = [i \in 1..NumProblems |-> 0]
    /\ fired_short = [i \in 1..NumProblems |-> FALSE]
    /\ published = FALSE

QueueNames == {"beacon", "task", "task_result"}

\* self.neighbors, in insertion order
Neighbors == <<"n1", "n2", "n3">>
NeighborIds == {Neighbors[i] : i \in 1..Len(Neighbors)}

NetIdle ==
    /\ bc_msg_type = ""
    /\ exclude = {}
    /\ todo = <<>>
    /\ spc = "idle"
    /\ starget = ""
    /\ conn = [n \in NeighborIds |-> "none"]
    /\ ack = [n \in NeighborIds |-> "none"]
    /\ attempts = [n \in NeighborIds |-> 0]
    /\ send_ret = [n \in NeighborIds |-> "none"]
    /\ handler_ran = [n \in NeighborIds |-> FALSE]

QueueIdle ==
    /\ enqueued = [q \in QueueNames |-> <<>>]
    /\ dequeued = [q \in QueueNames |-> <<>>]
    /\ received = [queue |-> "", was_empty |-> FALSE, ret |-> NoMsg]

\* the polling loops: transport accept loop, beacon loop, task loop and the
\* result loop of a user node
Loops == {"transport", "beacon", "task", "result"}

LoopIdle ==
    /\ loop_pc = [l \in Loops |-> "top"]
    /\ inbox = [l \in Loops |-> 0]
    /\ arrived = 0
    /\ failed = [l \in Loops |-> FALSE]
    /\ handled_after = [l \in Loops |-> FALSE]

\* the agent nodes of the network and the task instances of one problem
ChainAgents == {"a1", "a2"}
NoInstance == [inst |-> 0]

ChainIdle ==
    /\ instances = {}
    /\ in_flight = {}
    /\ node_queue = [a \in ChainAgents |-> <<>>]
    /\ node_pc = [a \in ChainAgents |-> "loop"]
    /\ node_task = [a \in ChainAgents |-> NoInstance]
    /\ executed = [i \in 1..CotNum |-> <<>>]
    /\ planned = [i \in 1..CotNum |-> 0]
    /\ result_queue = <<>>
    /\ broken = FALSE

StartIdle ==
    /\ proc = "none"
    /\ config_file = "none"
    /\ bind_ok = FALSE
    /\ cot_arg = 0
    /\ test_file = FALSE
    /\ start_pc = "idle"
    /\ config = "none"
    /\ server_started = FALSE
    /\ loops_started = FALSE
    /\ printed = {}

RestIdle == LoopIdle /\ StartIdle /\ ChainIdle

BatchIdle ==
    /\ tasks = 0
    /\ max_tasks = 0
    /\ raised = 0
    /\ QueueIdle /\ NetIdle /\ RestIdle

NoBeacon == [sender |-> "", task_id |-> "", requirement |-> ""]

ISEPIdle ==
    /\ pending_tasks = <<>>
    /\ cpc = "idle"
    /\ cbeacon = NoBeacon
    /\ read_responses = <<>>
    /\ returned = <<>>
    /\ foreign = FALSE
    /\ calls = 0
    /\ broadcasts = <<>>
    /\ handled = 0

PureIdle ==
    /\ fn_in = <<>>
    /\ fn_k = 0
    /\ fn_out = <<>>
    /\ fn_pc = "idle"

NodeIdle ==
    /\ subtask_queue = <<>>
    /\ beacon_queue = <<>>
    /\ first_task_received = FALSE
    /\ beacon_enabled = TRUE
    /\ tpc = "loop"
    /\ cur = NoMsg
    /\ new_task = NoMsg
    /\ bpc = "check"
    /\ bcur = NoMsg
    /\ executing = {}
    /\ sent = <<>>
    /\ arrivals = 0
    /\ running = TRUE

(***************************************************************************)
(* SpecTask: one chain.  The user creates the task and sends it; every     *)
(* receiver runs one execute_task on the received dict and sends the       *)
(* returned Task on, until the task is terminal.                           *)
(***************************************************************************)
NoOp == [op |-> "create", success |-> TRUE, dag_success |-> TRUE]

TaskIdle ==
    /\ task = _create_initial_task("p1", "u1", "t1")
    /\ form = "object"
    /\ transitions = 0
    /\ last = NoOp

TaskInit ==
    /\ BatchIdle
    /\ NodeIdle /\ ISEPIdle /\ PureIdle /\ UserIdle
    /\ \E p \in Problems, u \in UserIds, id \in Uuids :
            task = _create_initial_task(p, u, id)
    /\ form = "object"
    /\ transitions = 0
    /\ last = NoOp

\* NetworkAdapter.send puts data.to_dict() on the wire; the receiver's handler
\* gets that dict (ISEPClient.delegate_task, both from a user and from an agent)
TaskSend ==
    /\ form = "object"
    /\ ~IsTerminal(task)
    /\ task' = to_dict(task)
    /\ form' = "dict"
    /\ last' = [op |-> "send", success |-> TRUE, dag_success |-> TRUE]
    /\ UNCHANGED transitions
    /\ OnlyTask

TaskDecompose ==
    /\ form = "dict"
    /\ task.subtask_id = 0
    /\ \E o \in Oracles :
        /\ o.result = "4"
        /\ (~o.dag_success => o.n = 0)
        /\ task' = execute_task(task, o)
        /\ last' = [op |-> "decompose", success |-> o.success,
                    dag_success |-> o.success /\ o.dag_success]
    /\ form' = "object"
    /\ transitions' = transitions + 1
    /\ OnlyTask

TaskExecuteStep ==
    /\ form = "dict"
    /\ task.subtask_id # 0
    /\ ~Raises(task)
    /\ \E o \in Oracles :
        /\ o.success /\ o.dag_success /\ o.n = 0
        /\ task' = execute_task(task, o)
    /\ last' = [op |-> "execute", success |-> TRUE, dag_success |-> TRUE]
    /\ form' = "object"
    /\ transitions' = transitions + 1
    /\ OnlyTask

TaskNext == TaskSend \/ TaskDecompose \/ TaskExecuteStep

SpecTask == TaskInit /\ [][TaskNext]_vars


(***************************************************************************)
(* Executor selection (agents/agent.py).  A candidate is a pair            *)
(* <<node id, match score>>, the score in thousandths.                     *)
(***************************************************************************)
Min(a, b) == IF a <= b THEN a ELSE b

\* list[:k] for k >= 0
Prefix(s, k) == SubSeq(s, 1, Min(k, Len(s)))

\* sorted(candidates, key=lambda x: x[1], reverse=True): a stable sort, entries
\* of equal score keep the order they had in candidates
InsertDesc(s, x) ==
    LET i == Cardinality({j \in 1..Len(s) : s[j][2] >= x[2]})
    IN  SubSeq(s, 1, i) \o <<x>> \o SubSeq(s, i + 1, Len(s))

RECURSIVE sorted_desc(_)
sorted_desc(s) ==
    IF s = <<>> THEN <<>>
    ELSE InsertDesc(sorted_desc(SubSeq(s, 1, Len(s) - 1)), s[Len(s)])

\* a tie-break that looks at the id only and not at the score
_prioritize_self_any_score(candidates, agent_id) ==
    IF candidates = <<>> THEN candidates
    ELSE LET hits == {i \in 1..Len(candidates) : candidates[i][1] = agent_id}
         IN  IF hits = {} THEN candidates
             ELSE LET i == CHOOSE h \in hits : \A g \in hits : h <= g
                  IN  [candidates EXCEPT ![i] = candidates[1],
                                         ![1] = candidates[i]]

\* Agent._prioritize_self_execution: the first entry that is this node with the
\* best score changes places with the entry at index 0
_prioritize_self_execution(candidates, agent_id) ==
    IF candidates = <<>> THEN candidates
    ELSE LET best_score == candidates[1][2]
             hits == {i \in 1..Len(candidates) :
                        candidates[i][1] = agent_id /\ candidates[i][2] = best_score}
         IN  IF hits = {} THEN candidates
             ELSE LET i == CHOOSE h \in hits : \A g \in hits : h <= g
                  IN  [candidates EXCEPT ![i] = candidates[1],
                                         ![1] = candidates[i]]

\* Agent._select_best_executors
_select_best_executors(candidates, num_executors, agent_id) ==
    Prefix(_prioritize_self_execution(sorted_desc(candidates), agent_id),
           num_executors)

(***************************************************************************)
(* SpecNode: one AgentRunner.  Three threads run on the node: the          *)
(* transport's receive loop (NetworkAdapter._receive_loop, which calls     *)
(* the ISEP handlers), _listen_tasks and _listen_beacon.                   *)
(***************************************************************************)
Self == "a1"                    \* this node's agent_id
MaxArrivals == 2                \* messages the transport dispatches to the node
MatchScores == {500, 1000}      \* match scores, in thousandths

\* the dict on the wire of a task with n steps that is due for step k
\* (k = 0: the task as the user created it)
RECURSIVE WireTask(_, _)
WireTask(n, k) ==
    IF k = 0
    THEN to_dict(_create_initial_task("p1", "u1", "t1"))
    ELSE to_dict(execute_task(WireTask(n, k - 1),
                 [success |-> TRUE, dag_success |-> TRUE, n |-> n, result |-> "4"]))

\* tasks that reach a node: a new task from a user, or a task of MaxSteps
\* steps that a peer delegated after a non-terminal transition
InboundTasks ==
    {WireTask(0, 0)} \cup {WireTask(MaxSteps, k) : k \in 1..MaxSteps}

InboundBeacons ==
    [ sender : {"a2"}, task_id : {"1"}, requirement : {"math"} ]

\* discovery results broadcast_and_collect hands to assign_task
NodeCandidates ==
    { <<>>, << <<"a2", 1000>> >>, << <<"a2", 500>>, <<Self, 500>> >> }

\* ISEPClient._handle_task: subtask_queue.put((sender_id, "task", task)).
\* busy records the gate at the moment of delivery.
_handle_task(queue, sender_id, t, busy) ==
    Append(queue, [sender |-> sender_id, type |-> "task", data |-> t, busy |-> busy])

\* ISEPClient._handle_beacon: beacon_queue.put((sender_id, "beacon", beacon))
_handle_beacon(queue, sender_id, beacon) ==
    Append(queue, [sender |-> sender_id, type |-> "beacon", data |-> beacon])

\* a dispatch that, besides queueing the task, runs it in the receive thread
DispatchTaskInline ==
    /\ running
    /\ arrivals < MaxArrivals
    /\ \E t \in InboundTasks, s \in {"a2"} :
            subtask_queue' = _handle_task(subtask_queue, s, t, first_task_received)
    /\ executing' = executing \cup {"receive_loop"}
    /\ arrivals' = arrivals + 1
    /\ UNCHANGED <<beacon_queue, first_task_received, beacon_enabled, tpc, cur,
                   new_task, bpc, bcur, sent>>
    /\ UNCHANGED running
    /\ OnlyNode

\* NetworkAdapter._handle_message for msg_type "task"
DispatchTask ==
    /\ running
    /\ arrivals < MaxArrivals
    /\ \E t \in InboundTasks, s \in {"a2"} :
            subtask_queue' = _handle_task(subtask_queue, s, t, first_task_received)
    /\ arrivals' = arrivals + 1
    /\ UNCHANGED <<beacon_queue, first_task_received, beacon_enabled, tpc, cur,
                   new_task, bpc, bcur, executing, sent>>
    /\ UNCHANGED running
    /\ OnlyNode

\* NetworkAdapter._handle_message for msg_type "beacon"
DispatchBeacon ==
    /\ running
    /\ arrivals < MaxArrivals
    /\ \E b \in InboundBeacons :
            beacon_queue' = _handle_beacon(beacon_queue, b.sender, b)
    /\ arrivals' = arrivals + 1
    /\ UNCHANGED <<subtask_queue, first_task_received, beacon_enabled, tpc, cur,
                   new_task, bpc, bcur, executing, sent>>
    /\ UNCHANGED running
    /\ OnlyNode

\* _listen_tasks line 130: "while self.running"
TaskLoopCheck ==
    /\ tpc = "loop"
    /\ tpc' = IF running THEN "poll" ELSE "stopped"
    /\ UNCHANGED <<subtask_queue, beacon_queue, first_task_received, beacon_enabled,
                   cur, new_task, bpc, bcur, executing, sent, arrivals>>
    /\ UNCHANGED running
    /\ OnlyNode

\* _listen_tasks, lines 132-138 and 162-172: receive_task returns the oldest
\* queued message.  Gate IDLE: take the task and close the gate.  Gate BUSY:
\* relay with assign_task(task); task is the received dict, so reading
\* task.subtask_id raises AttributeError and the except clause reopens the gate.
TaskLoopReceive ==
    /\ tpc = "poll"
    /\ IF subtask_queue = <<>>
       THEN /\ tpc' = "loop"
            /\ UNCHANGED <<subtask_queue, first_task_received, beacon_enabled, cur>>
       ELSE /\ subtask_queue' = Tail(subtask_queue)
            /\ IF ~first_task_received
               THEN /\ first_task_received' = TRUE
                    /\ cur' = Head(subtask_queue)
                    /\ tpc' = "pause"
                    /\ UNCHANGED beacon_enabled
               ELSE /\ first_task_received' = FALSE
                    /\ beacon_enabled' = TRUE
                    /\ cur' = NoMsg
                    /\ tpc' = "loop"
    /\ UNCHANGED <<beacon_queue, new_task, bpc, bcur, executing, sent, arrivals>>
    /\ UNCHANGED running
    /\ OnlyNode

\* lines 140-143: beacon_enabled.clear(), then execute_task is entered
TaskLoopPause ==
    /\ tpc = "pause"
    /\ beacon_enabled' = FALSE
    /\ executing' = executing \cup {"task_loop"}
    /\ tpc' = "exec"
    /\ UNCHANGED <<subtask_queue, beacon_queue, first_task_received, cur, new_task,
                   bpc, bcur, sent, arrivals>>
    /\ UNCHANGED running
    /\ OnlyNode

\* line 143: execute_task returns the new Task
TaskLoopExecute ==
    /\ tpc = "exec"
    /\ ~Raises(cur.data)
    /\ \E o \in Oracles :
        /\ (cur.data.subtask_id # 0 => o.success /\ o.dag_success /\ o.n = 0)
        /\ (cur.data.subtask_id = 0 => o.result = "4" /\ (~o.dag_success => o.n = 0))
        /\ new_task' = execute_task(cur.data, o)
    /\ executing' = executing \ {"task_loop"}
    /\ tpc' = "after"
    /\ UNCHANGED <<subtask_queue, beacon_queue, first_task_received, beacon_enabled,
                   cur, bpc, bcur, sent, arrivals>>
    /\ UNCHANGED running
    /\ OnlyNode

\* line 143: execute_task raises (a collaborator fails, or the step is missing)
TaskLoopExecuteRaise ==
    /\ tpc = "exec"
    /\ executing' = executing \ {"task_loop"}
    /\ tpc' = "except"
    /\ UNCHANGED <<subtask_queue, beacon_queue, first_task_received, beacon_enabled,
                   cur, new_task, bpc, bcur, sent, arrivals>>
    /\ UNCHANGED running
    /\ OnlyNode

\* ISEPClient.submit_result: the TaskResult handed to NetworkAdapter.send
submit_result(target_id, result, previous_results) ==
    [ type |-> "task_result", target |-> target_id,
      data |-> [ target_id |-> target_id, executer_id |-> Self,
                 result |-> result, previous_results |-> previous_results ] ]

\* a terminal branch that submits the result and then assigns the task as well
TaskLoopSubmitAndAssign ==
    /\ tpc = "after"
    /\ IsTerminal(new_task)
    /\ sent' = Append(sent, submit_result(new_task.user_id, new_task.final_result,
                                          new_task.previous_results))
    /\ tpc' = "collect"
    /\ UNCHANGED <<subtask_queue, beacon_queue, first_task_received, beacon_enabled,
                   cur, new_task, bpc, bcur, executing, arrivals>>
    /\ UNCHANGED running
    /\ OnlyNode

\* lines 145-150: the task is terminal, the result goes to the task's user
TaskLoopSubmit ==
    /\ tpc = "after"
    /\ IsTerminal(new_task)
    /\ sent' = Append(sent, submit_result(new_task.user_id, new_task.final_result,
                                          new_task.previous_results))
    /\ tpc' = "resume"
    /\ UNCHANGED <<subtask_queue, beacon_queue, first_task_received, beacon_enabled,
                   cur, new_task, bpc, bcur, executing, arrivals>>
    /\ UNCHANGED running
    /\ OnlyNode

\* lines 152-155 (after the result was submitted) and 157-159 (before the
\* task is assigned): beacon_enabled.set(), first_task_received = False
TaskLoopResume ==
    /\ \/ tpc = "resume" /\ tpc' = "loop"
       \/ tpc = "after" /\ ~IsTerminal(new_task) /\ tpc' = "assign"
    /\ beacon_enabled' = TRUE
    /\ first_task_received' = FALSE
    /\ UNCHANGED <<subtask_queue, beacon_queue, cur, new_task, bpc, bcur,
                   executing, sent, arrivals>>
    /\ UNCHANGED running
    /\ OnlyNode

\* Agent.assign_task lines 324-332 / broadcast_and_collect lines 73-76: the
\* beacon for the next step is broadcast
TaskLoopAssign ==
    /\ tpc = "assign"
    /\ sent' = Append(sent,
          [ type |-> "beacon", target |-> "*",
            data |-> [ sender |-> Self,
                       task_id |-> ToString(new_task.subtask_id),
                       requirement |-> new_task.steps[new_task.subtask_id][2] ] ])
    /\ tpc' = "collect"
    /\ UNCHANGED <<subtask_queue, beacon_queue, first_task_received, beacon_enabled,
                   cur, new_task, bpc, bcur, executing, arrivals>>
    /\ UNCHANGED running
    /\ OnlyNode

\* ISEPClient.delegate_task: the task handed to NetworkAdapter.send
delegate_task(executor_id, t) ==
    [ type |-> "task", target |-> executor_id, data |-> to_dict(t) ]

\* Agent.assign_task lines 332-339: the collection window is over, the best
\* candidate gets the task
TaskLoopDelegate ==
    /\ tpc = "collect"
    /\ \E candidates \in NodeCandidates :
        LET best_matches == _select_best_executors(candidates, 1, Self)
        IN  sent' = sent \o [i \in 1..Len(best_matches) |->
                                delegate_task(best_matches[i][1], new_task)]
    /\ tpc' = "loop"
    /\ UNCHANGED <<subtask_queue, beacon_queue, first_task_received, beacon_enabled,
                   cur, new_task, bpc, bcur, executing, arrivals>>
    /\ UNCHANGED running
    /\ OnlyNode

\* an except clause that only logs
TaskLoopExceptLogOnly ==
    /\ tpc = "except"
    /\ tpc' = "loop"
    /\ UNCHANGED <<subtask_queue, beacon_queue, first_task_received, beacon_enabled,
                   cur, new_task, bpc, bcur, executing, sent, arrivals>>
    /\ UNCHANGED running
    /\ OnlyNode

\* lines 167-172: the except clause of the task loop
TaskLoopExcept ==
    /\ tpc = "except"
    /\ IF running
       THEN /\ beacon_enabled' = TRUE
            /\ first_task_received' = FALSE
       ELSE UNCHANGED <<beacon_enabled, first_task_received>>
    /\ tpc' = "loop"
    /\ UNCHANGED <<subtask_queue, beacon_queue, cur, new_task, bpc, bcur,
                   executing, sent, arrivals>>
    /\ UNCHANGED running
    /\ OnlyNode

\* lines 150 and 160: submit_result or assign_task raises (the payload cannot
\* be serialized, a collaborator fails)
TaskLoopSendRaise ==
    /\ \/ tpc = "after" /\ IsTerminal(new_task)
       \/ tpc \in {"assign", "collect"}
    /\ tpc' = "except"
    /\ UNCHANGED <<subtask_queue, beacon_queue, first_task_received, beacon_enabled,
                   cur, new_task, bpc, bcur, executing, sent, arrivals>>
    /\ UNCHANGED running
    /\ OnlyNode

\* _wait_for_stop: the operator stops the node
Stop ==
    /\ running
    /\ running' = FALSE
    /\ UNCHANGED <<subtask_queue, beacon_queue, first_task_received, beacon_enabled,
                   tpc, cur, new_task, bpc, bcur, executing, sent, arrivals>>
    /\ OnlyNode

\* _listen_beacon line 104: beacon_enabled.is_set()
BeaconLoopCheck ==
    /\ bpc = "check"
    /\ ~running \/ beacon_enabled
    /\ bpc' = IF running THEN "recv" ELSE "stopped"
    /\ UNCHANGED <<subtask_queue, beacon_queue, first_task_received, beacon_enabled,
                   tpc, cur, new_task, bcur, executing, sent, arrivals>>
    /\ UNCHANGED running
    /\ OnlyNode

\* line 107: receive_beacon(timeout=1) returns the oldest beacon, or the
\* (None, None, None) sentinel when the queue stays empty
BeaconLoopReceive ==
    /\ bpc = "recv"
    /\ IF beacon_queue # <<>>
       THEN /\ bcur' = Head(beacon_queue)
            /\ beacon_queue' = Tail(beacon_queue)
            /\ bpc' = "handle"
       ELSE /\ bpc' = "check"
            /\ UNCHANGED <<bcur, beacon_queue>>
    /\ UNCHANGED <<subtask_queue, first_task_received, beacon_enabled, tpc, cur,
                   new_task, executing, sent, arrivals>>
    /\ UNCHANGED running
    /\ OnlyNode

\* Agent.handle_beacon: the BeaconResponse handed to NetworkAdapter.send
handle_beacon(sender_id, beacon, match_score) ==
    [ type |-> "beacon_response", target |-> sender_id,
      data |-> [ responder_id |-> Self, task_id |-> beacon.task_id,
                 match_score |-> match_score ] ]

\* line 111
BeaconLoopHandle ==
    /\ bpc = "handle"
    /\ \E score \in MatchScores :
            sent' = Append(sent, handle_beacon(bcur.sender, bcur.data, score))
    /\ bpc' = "check"
    /\ bcur' = NoMsg
    /\ UNCHANGED <<subtask_queue, beacon_queue, first_task_received, beacon_enabled,
                   tpc, cur, new_task, executing, arrivals>>
    /\ UNCHANGED running
    /\ OnlyNode

NodeInit == NodeIdle /\ TaskIdle /\ ISEPIdle /\ PureIdle /\ UserIdle /\ BatchIdle

NodeNext ==
       \/ DispatchTask \/ DispatchBeacon
       \/ TaskLoopCheck
       \/ TaskLoopReceive \/ TaskLoopPause \/ TaskLoopExecute \/ TaskLoopExecuteRaise
       \/ TaskLoopSubmit \/ TaskLoopResume \/ TaskLoopAssign \/ TaskLoopDelegate
       \/ TaskLoopSendRaise \/ TaskLoopExcept
       \/ Stop
       \/ BeaconLoopCheck \/ BeaconLoopReceive \/ BeaconLoopHandle

SpecNode == NodeInit /\ [][NodeNext]_vars

(***************************************************************************)
(* SpecISEP: ISEPClient.broadcast_and_collect, called by one thread (the   *)
(* task loop through assign_task), while the transport's receive loop      *)
(* dispatches inbound beacon responses to _handle_beacon_response.         *)
(***************************************************************************)
MaxCalls == 2           \* broadcast_and_collect calls
MaxHandled == 3         \* inbound beacon responses

\* Beacon(task_id=str(task.subtask_id)): the ids beacons and responses carry
BeaconTaskIds == {"1", "2"}

Beacons == [ sender : {Self}, task_id : BeaconTaskIds, requirement : {"math"} ]

BeaconResponses ==
    [ responder_id : {"a2", "a3"}, task_id : BeaconTaskIds, match_score : MatchScores ]

\* pending_tasks[key] = value on a dict
DictSet(dict, key, value) ==
    [k \in DOMAIN dict \cup {key} |-> IF k = key THEN value ELSE dict[k]]

\* a handler that appends the response to every open entry
_handle_beacon_response_any(pending, response) ==
    [k \in DOMAIN pending |-> Append(pending[k], response)]

\* ISEPClient._handle_beacon_response
_handle_beacon_response(pending, response) ==
    IF response.task_id \in DOMAIN pending
    THEN DictSet(pending, response.task_id, Append(pending[response.task_id], response))
    ELSE pending

\* broadcast_and_collect lines 73-76: a fresh entry for the beacon's task id,
\* then the broadcast
CollectBroadcast ==
    /\ cpc = "idle"
    /\ calls < MaxCalls
    /\ \E b \in Beacons :
        /\ cbeacon' = b
        /\ broadcasts' = Append(broadcasts, b)
        /\ pending_tasks' = DictSet(pending_tasks, b.task_id, <<>>)
    /\ cpc' = "window"
    /\ calls' = calls + 1
    /\ foreign' = FALSE
    /\ UNCHANGED <<read_responses, returned, handled>>
    /\ OnlyISEP

\* lines 84-90: the window is over; the entry is read and turned into pairs
CollectReturn ==
    /\ cpc = "window"
    /\ read_responses' = pending_tasks[cbeacon.task_id]
    /\ returned' = [i \in 1..Len(pending_tasks[cbeacon.task_id]) |->
                        << pending_tasks[cbeacon.task_id][i].responder_id,
                           pending_tasks[cbeacon.task_id][i].match_score >>]
    /\ cpc' = "idle"
    /\ UNCHANGED <<pending_tasks, cbeacon, foreign, calls, broadcasts, handled>>
    /\ OnlyISEP

\* the response dict with a history field: late tells that the response
\* answers the beacon of a call whose window had been read when it arrived
Stamp(r, late) ==
    [ responder_id |-> r.responder_id, task_id |-> r.task_id,
      match_score |-> r.match_score, late |-> late ]

\* NetworkAdapter._handle_message for msg_type "beacon_response": a peer
\* answers the beacon of call c (Agent.handle_beacon copies the beacon's
\* task_id), or sends a response nobody asked for (c = 0)
DispatchBeaconResponse ==
    /\ handled < MaxHandled
    /\ \E r \in BeaconResponses, c \in 0..calls :
        /\ c > 0 => r.task_id = broadcasts[c].task_id
        /\ pending_tasks' = _handle_beacon_response(pending_tasks,
                Stamp(r, c > 0 /\ (c < calls \/ cpc = "idle")))
        /\ foreign' = (foreign \/ (cpc = "window" /\ r.task_id # cbeacon.task_id))
    /\ handled' = handled + 1
    /\ UNCHANGED <<cpc, cbeacon, read_responses, returned, calls, broadcasts>>
    /\ OnlyISEP

ISEPInit == ISEPIdle /\ TaskIdle /\ NodeIdle /\ PureIdle /\ UserIdle /\ BatchIdle

ISEPNext == CollectBroadcast \/ CollectReturn \/ DispatchBeaconResponse

SpecISEP == ISEPInit /\ [][ISEPNext]_vars

(***************************************************************************)
(* SpecVote: UserRunner._vote_results on every answer list up to           *)
(* MaxAnswers entries.                                                     *)
(***************************************************************************)
MaxAnswers == 3
AnswerValues == {"4", "5", "a", "b"}

\* all sequences over S of length 0..n
SeqsUpTo(S, n) == UNION {[1..m -> S] : m \in 0..n}

\* number of occurrences of v in list s
Occurrences(s, v) == Cardinality({i \in 1..Len(s) : s[i] = v})

\* Counter(answers): the distinct answers in order of first insertion, each
\* with its count
RECURSIVE Counter(_)
Counter(s) ==
    IF s = <<>> THEN <<>>
    ELSE LET front == Counter(SubSeq(s, 1, Len(s) - 1))
             x == s[Len(s)]
         IN  IF \E j \in 1..Len(front) : front[j][1] = x
             THEN [j \in 1..Len(front) |->
                     IF front[j][1] = x THEN <<x, front[j][2] + 1>> ELSE front[j]]
             ELSE Append(front, <<x, 1>>)

\* a most_common(1) that keeps the last of the entries with the largest count
most_common_1_last(count) ==
    count[CHOOSE i \in 1..Len(count) :
            \A j \in 1..Len(count) :
                /\ count[j][2] <= count[i][2]
                /\ j > i => count[j][2] < count[i][2]]

\* Counter.most_common(1)[0]: heapq.nlargest(1, items, key=count) is
\* max(items, key=count), the first of the entries with the largest count
most_common_1(count) ==
    count[CHOOSE i \in 1..Len(count) :
            \A j \in 1..Len(count) :
                /\ count[j][2] <= count[i][2]
                /\ j < i => count[j][2] < count[i][2]]

\* UserRunner._vote_results
_vote_results(votes) ==
    IF votes = <<>> THEN "[NO_ANSWERS]"
    ELSE most_common_1(Counter(votes))[1]

VoteInit ==
    /\ fn_in \in SeqsUpTo(AnswerValues, MaxAnswers)
    /\ fn_k = 0
    /\ fn_out = <<>>
    /\ fn_pc = "ready"
    /\ TaskIdle /\ NodeIdle /\ ISEPIdle /\ UserIdle /\ BatchIdle

ApplyVote ==
    /\ fn_pc = "ready"
    /\ fn_out' = _vote_results(fn_in)
    /\ fn_pc' = "done"
    /\ UNCHANGED <<fn_in, fn_k>>
    /\ OnlyPure

SpecVote == VoteInit /\ [][ApplyVote]_vars

(***************************************************************************)
(* SpecSelect: Agent._select_best_executors on every candidate list up to  *)
(* MaxCandidates entries and every K up to one more than that.             *)
(***************************************************************************)
MaxCandidates == 3
CandidateIds == {"A", Self, "B"}
CandidateScores == {600, 800}

SelectInit ==
    /\ fn_in \in SeqsUpTo(CandidateIds \X CandidateScores, MaxCandidates)
    /\ fn_k \in 0..(MaxCandidates + 1)
    /\ fn_out = <<>>
    /\ fn_pc = "ready"
    /\ TaskIdle /\ NodeIdle /\ ISEPIdle /\ UserIdle /\ BatchIdle

ApplySelect ==
    /\ fn_pc = "ready"
    /\ fn_out' = _select_best_executors(fn_in, fn_k, Self)
    /\ fn_pc' = "done"
    /\ UNCHANGED <<fn_in, fn_k>>
    /\ OnlyPure

SpecSelect == SelectInit /\ [][ApplySelect]_vars

(***************************************************************************)
(* SpecUser: one UserRunner working through a batch.  Threads: the caller  *)
(* of process_task_batch, _listen_results, one threading.Timer per         *)
(* process_task call, and the transport's receive loop that queues the     *)
(* TaskResult messages of the agents.                                      *)
(***************************************************************************)
CheckpointEvery == 5
ResultValues == {"a", "b"}

\* ISEPClient._handle_task_result: task_result_queue.put(...); prob records
\* the problem the result was produced for
_handle_task_result(queue, sender_id, result, prob) ==
    Append(queue, [sender |-> sender_id, type |-> "task_result",
                   data |-> result, prob |-> prob])

\* f[1] + ... + f[n]
RECURSIVE SumTo(_, _)
SumTo(f, n) == IF n = 0 THEN 0 ELSE f[n] + SumTo(f, n - 1)

\* NetworkAdapter._handle_message for msg_type "task_result": an agent that
\* finished a chain of an initiated problem reports its result.  A problem is
\* delegated to at most consensus_count executors (User.initiate_task) and
\* every chain ends in at most one TaskResult.
DispatchResult ==
    /\ SumTo(delivered, NumProblems) < MaxResults
    /\ \E j \in initiated, v \in ResultValues :
        /\ delivered[j] < CotNum
        /\ task_result_queue' =
                _handle_task_result(task_result_queue, "a2",
                    submit_result("u1", v, <<Background, "s1 Answer: " \o v>>).data, j)
        /\ delivered' = [delivered EXCEPT ![j] = @ + 1]
    /\ UNCHANGED <<current_answers, full_answers, final_result, result_event,
                   answers, lpc, lmsg, mpc, index, timers, ret, tasks_to_save,
                   processed_count, log, initiated, discovered, fired_short, published>>
    /\ OnlyUser

\* _listen_results lines 110-114: take the oldest result, append its answer
ListenReceive ==
    /\ lpc = "recv"
    /\ task_result_queue # <<>>
    /\ lmsg' = Head(task_result_queue)
    /\ task_result_queue' = Tail(task_result_queue)
    /\ current_answers' = Append(current_answers, Head(task_result_queue).data.result)
    /\ lpc' = "lock"
    /\ UNCHANGED <<full_answers, final_result, result_event, answers, mpc, index,
                   timers, ret, tasks_to_save, processed_count, log, initiated, discovered,
                   delivered, fired_short, published>>
    /\ OnlyUser

\* lines 116-126, under self.lock: append the trace; at the threshold vote
\* and store the winner
ListenTally ==
    /\ lpc = "lock"
    /\ full_answers' = Append(full_answers, lmsg.data.previous_results)
    /\ IF Len(current_answers) >= CotNum
       THEN /\ final_result' = _vote_results(current_answers)
            /\ answers' = Append(answers, _vote_results(current_answers))
            /\ lpc' = "signal"
       ELSE /\ lpc' = "recv"
            /\ UNCHANGED <<final_result, answers>>
    /\ UNCHANGED <<task_result_queue, current_answers, result_event, lmsg, mpc,
                   index, timers, ret, tasks_to_save, processed_count, log,
                   initiated, discovered, delivered, fired_short, published>>
    /\ OnlyUser

\* line 127: result_event.set()
ListenSignal ==
    /\ lpc = "signal"
    /\ result_event' = TRUE
    /\ published' = TRUE
    /\ lpc' = "recv"
    /\ UNCHANGED <<task_result_queue, current_answers, full_answers, final_result,
                   answers, lmsg, mpc, index, timers, ret, tasks_to_save,
                   processed_count, log, initiated, discovered, delivered, fired_short>>
    /\ OnlyUser

\* process_task_batch lines 226-236: the next problem, state reset
BatchNext ==
    /\ mpc = "next"
    /\ index < NumProblems
    /\ index' = index + 1
    /\ current_answers' = <<>>
    /\ full_answers' = <<>>
    /\ final_result' = ""
    /\ published' = FALSE
    /\ mpc' = "clear"
    /\ UNCHANGED <<task_result_queue, result_event, answers, lpc, lmsg, timers,
                   ret, tasks_to_save, processed_count, log, initiated, discovered, delivered,
                   fired_short>>
    /\ OnlyUser

\* process_task line 181: result_event.clear()
ProcessClear ==
    /\ mpc = "clear"
    /\ result_event' = FALSE
    /\ mpc' = "initiate"
    /\ UNCHANGED <<task_result_queue, current_answers, full_answers, final_result,
                   answers, lpc, lmsg, index, timers, ret, tasks_to_save,
                   processed_count, log, initiated, discovered, delivered, fired_short,
                   published>>
    /\ OnlyUser

\* what broadcast_and_collect returns to User._discover_executors
UserCandidates == {<<>>, <<<<"a2", 1000>>>>}

\* User._select_executors: the consensus_count best candidates
_select_executors(candidates, num_executors) ==
    Prefix(sorted_desc(candidates), num_executors)

\* User.initiate_task lines 89-102: the executors the task is delegated to,
\* or RuntimeError when there is none
initiate_task(executor_candidates) ==
    LET selected_executors == _select_executors(executor_candidates, CotNum)
    IN  [raised |-> selected_executors = <<>>, delegated |-> selected_executors]

\* an initiate_task that goes on without executors
ProcessInitiateAnyway ==
    /\ mpc = "initiate"
    /\ \E executor_candidates \in UserCandidates :
        /\ discovered' = [discovered EXCEPT ![index] = executor_candidates]
        /\ initiated' = initiated \cup {index}
        /\ mpc' = "timer"
    /\ UNCHANGED <<task_result_queue, current_answers, full_answers, final_result,
                   result_event, answers, lpc, lmsg, index, timers, ret,
                   tasks_to_save, processed_count, log, delivered, fired_short,
                   published>>
    /\ OnlyUser

\* line 182: User.initiate_task delegates the task, or raises RuntimeError
\* when discovery found no executor
ProcessInitiate ==
    /\ mpc = "initiate"
    /\ \E executor_candidates \in UserCandidates :
        /\ discovered' = [discovered EXCEPT ![index] = executor_candidates]
        /\ IF initiate_task(executor_candidates).raised
           THEN /\ mpc' = "error"
                /\ UNCHANGED initiated
           ELSE /\ initiated' = initiated \cup {index}
                /\ mpc' = "timer"
    /\ UNCHANGED <<task_result_queue, current_answers, full_answers, final_result,
                   result_event, answers, lpc, lmsg, index, timers, ret,
                   tasks_to_save, processed_count, log, delivered, fired_short,
                   published>>
    /\ OnlyUser

\* lines 192-193: threading.Timer(300, timeout_handler).start()
ProcessStartTimer ==
    /\ mpc = "timer"
    /\ timers' = [timers EXCEPT ![index] = "armed"]
    /\ mpc' = "wait"
    /\ UNCHANGED <<task_result_queue, current_answers, full_answers, final_result,
                   result_event, answers, lpc, lmsg, index, ret, tasks_to_save,
                   processed_count, log, initiated, discovered, delivered, fired_short,
                   published>>
    /\ OnlyUser

\* line 196: result_event.wait() returns once the event is set
ProcessWait ==
    /\ mpc = "wait"
    /\ result_event
    /\ mpc' = "cancel"
    /\ UNCHANGED <<task_result_queue, current_answers, full_answers, final_result,
                   result_event, answers, lpc, lmsg, index, timers, ret,
                   tasks_to_save, processed_count, log, initiated, discovered, delivered,
                   fired_short, published>>
    /\ OnlyUser

\* line 197: timer.cancel() stops a timer that has not fired yet
ProcessCancel ==
    /\ mpc = "cancel"
    /\ timers' = [timers EXCEPT ![index] = IF @ = "armed" THEN "cancelled" ELSE @]
    /\ mpc' = "return"
    /\ UNCHANGED <<task_result_queue, current_answers, full_answers, final_result,
                   result_event, answers, lpc, lmsg, index, ret, tasks_to_save,
                   processed_count, log, initiated, discovered, delivered, fired_short,
                   published>>
    /\ OnlyUser

\* the record process_task_batch keeps for a problem
ResultItem(unique_id, final_answer, traces) ==
    [unique_id |-> unique_id, final_answer |-> final_answer, full_answers |-> traces]

\* process_task line 199 and process_task_batch lines 241-255: final_result
\* is returned and recorded; every CheckpointEvery-th problem the buffer is
\* appended to the log
ProcessReturn ==
    /\ mpc = "return"
    /\ ret' = [ret EXCEPT ![index] = final_result]
    /\ processed_count' = processed_count + 1
    /\ IF (processed_count + 1) % CheckpointEvery = 0
       THEN /\ log' = Append(log, Append(tasks_to_save, ResultItem(index, final_result, full_answers)))
            /\ tasks_to_save' = <<>>
       ELSE /\ tasks_to_save' = Append(tasks_to_save, ResultItem(index, final_result, full_answers))
            /\ UNCHANGED log
    /\ mpc' = "next"
    /\ UNCHANGED <<task_result_queue, current_answers, full_answers, final_result,
                   result_event, answers, lpc, lmsg, index, timers, initiated, discovered,
                   delivered, fired_short, published>>
    /\ OnlyUser

\* lines 257-266: process_task raised; an "[ERROR] ..." record is kept
ProcessError ==
    /\ mpc = "error"
    /\ ret' = [ret EXCEPT ![index] = "<raised>"]
    /\ tasks_to_save' = Append(tasks_to_save, ResultItem(index, "[ERROR]", <<>>))
    /\ processed_count' = processed_count + 1
    /\ mpc' = "next"
    /\ UNCHANGED <<task_result_queue, current_answers, full_answers, final_result,
                   result_event, answers, lpc, lmsg, index, timers, log, initiated, discovered,
                   delivered, fired_short, published>>
    /\ OnlyUser

\* lines 268-272: after the last problem the remaining records are saved
BatchFinish ==
    /\ mpc = "next"
    /\ index = NumProblems
    /\ log' = IF tasks_to_save # <<>> THEN Append(log, tasks_to_save) ELSE log
    /\ mpc' = "done"
    /\ UNCHANGED <<task_result_queue, current_answers, full_answers, final_result,
                   result_event, answers, lpc, lmsg, index, timers, ret,
                   tasks_to_save, processed_count, initiated, discovered, delivered,
                   fired_short, published>>
    /\ OnlyUser

\* timeout_handler line 186, run by the timer thread after 300 s:
\* "if not self.result_event.is_set()"
TimerFire(i) ==
    /\ timers[i] = "armed"
    /\ timers' = [timers EXCEPT ![i] = IF result_event THEN "done" ELSE "checked"]
    /\ fired_short' = [fired_short EXCEPT ![i] = (delivered[i] < CotNum)]
    /\ UNCHANGED <<task_result_queue, current_answers, full_answers, final_result,
                   result_event, answers, lpc, lmsg, mpc, index, ret, tasks_to_save,
                   processed_count, log, initiated, discovered, delivered, published>>
    /\ OnlyUser

\* line 188: self.final_result = "[TIMEOUT]"
TimerWrite(i) ==
    /\ timers[i] = "checked"
    /\ final_result' = "[TIMEOUT]"
    /\ timers' = [timers EXCEPT ![i] = "wrote"]
    /\ UNCHANGED <<task_result_queue, current_answers, full_answers, result_event,
                   answers, lpc, lmsg, mpc, index, ret, tasks_to_save,
                   processed_count, log, initiated, discovered, delivered, fired_short,
                   published>>
    /\ OnlyUser

\* a timeout_handler that ends without signalling the event
TimerSignalSkipped(i) ==
    /\ timers[i] = "wrote"
    /\ timers' = [timers EXCEPT ![i] = "done"]
    /\ UNCHANGED <<task_result_queue, current_answers, full_answers, final_result,
                   result_event, answers, lpc, lmsg, mpc, index, ret, tasks_to_save,
                   processed_count, log, initiated, discovered, delivered, fired_short,
                   published>>
    /\ OnlyUser

\* line 189: self.result_event.set()
TimerSignal(i) ==
    /\ timers[i] = "wrote"
    /\ result_event' = TRUE
    /\ timers' = [timers EXCEPT ![i] = "done"]
    /\ UNCHANGED <<task_result_queue, current_answers, full_answers, final_result,
                   answers, lpc, lmsg, mpc, index, ret, tasks_to_save,
                   processed_count, log, initiated, discovered, delivered, fired_short,
                   published>>
    /\ OnlyUser

UserInit == UserIdle /\ TaskIdle /\ NodeIdle /\ ISEPIdle /\ PureIdle /\ BatchIdle

UserNext ==
    \/ DispatchResult
    \/ ListenReceive \/ ListenTally \/ ListenSignal
    \/ BatchNext \/ ProcessClear \/ ProcessInitiate \/ ProcessStartTimer
    \/ ProcessWait \/ ProcessCancel \/ ProcessReturn \/ ProcessError
    \/ BatchFinish
    \/ \E i \in 1..NumProblems : TimerFire(i) \/ TimerWrite(i) \/ TimerSignal(i)

SpecUser == UserInit /\ [][UserNext]_vars

(***************************************************************************)
(* SpecProcess: one process_task call, the one for the last problem of a   *)
(* batch, from its entry to the end of the batch.  The problem before it   *)
(* either timed out after one result (the other may still arrive) or was   *)
(* decided by the vote while its timer thread had passed the is_set test   *)
(* of timeout_handler and has not written yet; for the problems before that*)
(* one initiate_task raised.                                               *)
(***************************************************************************)
PastOutcomes == {"timed_out", "voted"}

\* the problem processed just before the last one, if there is one
Previous == {j \in 1..NumProblems : j = NumProblems - 1}

\* what the batch loop recorded for an earlier problem
PastReturn(j, outcome) ==
    IF j \notin Previous THEN "<raised>"
    ELSE IF outcome = "voted" THEN "a" ELSE "[TIMEOUT]"

PastRecord(j, outcome) ==
    IF j \notin Previous THEN ResultItem(j, "[ERROR]", <<>>)
    ELSE ResultItem(j, PastReturn(j, outcome),
                    [k \in 1..(IF outcome = "voted" THEN CotNum ELSE CotNum - 1) |->
                        <<Background, "s1 Answer: a">>])

ProcessInit ==
    /\ \E outcome \in PastOutcomes :
        /\ timers = [i \in 1..NumProblems |->
                        IF i \notin Previous THEN "none"
                        ELSE IF outcome = "voted" THEN "checked" ELSE "done"]
        /\ ret = [i \in 1..NumProblems |->
                        IF i = NumProblems THEN "<pending>"
                        ELSE PastReturn(i, outcome)]
        /\ delivered = [i \in 1..NumProblems |->
                        IF i \notin Previous THEN 0
                        ELSE IF outcome = "voted" THEN CotNum ELSE CotNum - 1]
        /\ answers = IF Previous # {} /\ outcome = "voted" THEN <<"a">> ELSE <<>>
        /\ tasks_to_save = [i \in 1..(NumProblems - 1) |-> PastRecord(i, outcome)]
    /\ index = NumProblems
    /\ mpc = "clear"
    /\ processed_count = NumProblems - 1
    /\ log = <<>>
    /\ initiated = Previous
    /\ discovered = [i \in 1..NumProblems |->
                        IF i \in Previous THEN <<<<"a2", 1000>>>> ELSE <<>>]
    /\ fired_short = [i \in 1..NumProblems |-> i \in Previous]
    /\ result_event = (Previous # {})
    /\ task_result_queue = <<>>
    /\ current_answers = <<>>
    /\ full_answers = <<>>
    /\ final_result = ""
    /\ published = FALSE
    /\ lpc = "recv"
    /\ lmsg = NoMsg
    /\ TaskIdle /\ NodeIdle /\ ISEPIdle /\ PureIdle /\ BatchIdle

\* the threads of the user process
BatchThread ==
    \/ ProcessClear \/ ProcessInitiate \/ ProcessStartTimer
    \/ ProcessWait \/ ProcessCancel \/ ProcessReturn \/ ProcessError
    \/ BatchFinish

TimerThread == \E i \in 1..NumProblems : TimerFire(i) \/ TimerWrite(i) \/ TimerSignal(i)

ListenerThread == ListenReceive \/ ListenTally \/ ListenSignal

ProcessNext == DispatchResult \/ BatchThread \/ TimerThread \/ ListenerThread

\* the caller keeps running, a started threading.Timer runs timeout_handler
\* to its end after 300 s unless it is cancelled first, and the listener
\* thread keeps polling
SpecProcess ==
    /\ ProcessInit
    /\ [][ProcessNext]_vars
    /\ WF_vars(BatchThread)
    /\ WF_vars(TimerThread)
    /\ WF_vars(ListenerThread)

(***************************************************************************)
(* SpecBatch: UserRunner.process_task_batch over a whole batch.  One       *)
(* iteration of its loop is one step: process_task either returns a vote   *)
(* winner or "[TIMEOUT]" (see SpecUser), or raises.  The traces that come   *)
(* with an answer are not followed in this machine.                         *)
(***************************************************************************)
MaxBatch == 12          \* len(tasks) of the largest batch
MaxRaised == 1          \* exceptions in one batch
MaxTasksArgs == {0, 10} \* max_tasks: None, and the value main passes
BatchOutcomes == {"a", "[TIMEOUT]"}

\* line 223: max_process = max_tasks or len(tasks)
max_process == OrInt(max_tasks, tasks)

\* _save_batch_results: one append of the records to the log file
_save_batch_results(file, results) == Append(file, results)

\* an iteration that appends the buffer at the checkpoint and keeps it
BatchIterationKeepBuffer ==
    /\ mpc = "next"
    /\ index < tasks
    /\ processed_count < max_process
    /\ index' = index + 1
    /\ \E final_answer \in BatchOutcomes :
        LET buffer == Append(tasks_to_save, ResultItem(index + 1, final_answer, <<>>))
        IN  /\ tasks_to_save' = buffer
            /\ log' = IF (processed_count + 1) % CheckpointEvery = 0
                      THEN _save_batch_results(log, buffer) ELSE log
    /\ processed_count' = processed_count + 1
    /\ UNCHANGED <<task_result_queue, current_answers, full_answers, final_result,
                   result_event, answers, lpc, lmsg, mpc, timers, ret, initiated, discovered,
                   delivered, fired_short, published>>
    /\ UNCHANGED batchVars
    /\ OnlyBatch

\* lines 226-255: one iteration in which process_task returns; the record is
\* buffered and every CheckpointEvery-th processed problem the buffer is saved
BatchIteration ==
    /\ mpc = "next"
    /\ index < tasks
    /\ processed_count < max_process
    /\ index' = index + 1
    /\ \E final_answer \in BatchOutcomes :
        LET buffer == Append(tasks_to_save, ResultItem(index + 1, final_answer, <<>>))
        IN  IF (processed_count + 1) % CheckpointEvery = 0
            THEN /\ log' = _save_batch_results(log, buffer)
                 /\ tasks_to_save' = <<>>
            ELSE /\ tasks_to_save' = buffer
                 /\ UNCHANGED log
    /\ processed_count' = processed_count + 1
    /\ UNCHANGED <<task_result_queue, current_answers, full_answers, final_result,
                   result_event, answers, lpc, lmsg, mpc, timers, ret, initiated, discovered,
                   delivered, fired_short, published>>
    /\ UNCHANGED batchVars
    /\ OnlyBatch

\* lines 238-266: process_task raises; the except clause buffers an
\* "[ERROR] ..." record and counts the problem, without a checkpoint
BatchIterationError ==
    /\ mpc = "next"
    /\ index < tasks
    /\ processed_count < max_process
    /\ raised < MaxRaised
    /\ index' = index + 1
    /\ tasks_to_save' = Append(tasks_to_save, ResultItem(index + 1, "[ERROR]", <<>>))
    /\ processed_count' = processed_count + 1
    /\ raised' = raised + 1
    /\ UNCHANGED <<task_result_queue, current_answers, full_answers, final_result,
                   result_event, answers, lpc, lmsg, mpc, timers, ret, log,
                   initiated, discovered, delivered, fired_short, published>>
    /\ UNCHANGED <<tasks, max_tasks>>
    /\ OnlyBatch

\* lines 252-266: the checkpoint's _save_batch_results raises IOError (open
\* fails).  The record and the count are already in place, the buffer is not
\* cleared, and the except clause adds an "[ERROR] ..." record for the same
\* problem and counts it once more
BatchIterationSaveError ==
    /\ mpc = "next"
    /\ index < tasks
    /\ processed_count < max_process
    /\ raised < MaxRaised
    /\ (processed_count + 1) % CheckpointEvery = 0
    /\ index' = index + 1
    /\ \E final_answer \in BatchOutcomes :
        tasks_to_save' = Append(Append(tasks_to_save,
                                       ResultItem(index + 1, final_answer, <<>>)),
                                ResultItem(index + 1, "[ERROR]", <<>>))
    /\ processed_count' = processed_count + 2
    /\ raised' = raised + 1
    /\ UNCHANGED <<task_result_queue, current_answers, full_answers, final_result,
                   result_event, answers, lpc, lmsg, mpc, timers, ret, log,
                   initiated, discovered, delivered, fired_short, published>>
    /\ UNCHANGED <<tasks, max_tasks>>
    /\ OnlyBatch

\* lines 227-228 and 268-272: the loop ends (no problem left, or max_process
\* reached) and the remaining records are saved
BatchEnd ==
    /\ mpc = "next"
    /\ index >= tasks \/ processed_count >= max_process
    /\ log' = IF tasks_to_save # <<>>
              THEN _save_batch_results(log, tasks_to_save) ELSE log
    /\ mpc' = "done"
    /\ UNCHANGED <<task_result_queue, current_answers, full_answers, final_result,
                   result_event, answers, lpc, lmsg, index, timers, ret,
                   tasks_to_save, processed_count, initiated, discovered, delivered,
                   fired_short, published>>
    /\ UNCHANGED batchVars
    /\ OnlyBatch

\* lines 269-270: the final _save_batch_results raises IOError, which leaves
\* process_task_batch
BatchEndSaveError ==
    /\ mpc = "next"
    /\ index >= tasks \/ processed_count >= max_process
    /\ tasks_to_save # <<>>
    /\ raised < MaxRaised
    /\ raised' = raised + 1
    /\ mpc' = "raised"
    /\ UNCHANGED <<task_result_queue, current_answers, full_answers, final_result,
                   result_event, answers, lpc, lmsg, index, timers, ret,
                   tasks_to_save, processed_count, log, initiated, discovered, delivered,
                   fired_short, published>>
    /\ UNCHANGED <<tasks, max_tasks>>
    /\ OnlyBatch

BatchInit ==
    /\ tasks \in 0..MaxBatch
    /\ max_tasks \in MaxTasksArgs
    /\ raised = 0
    /\ QueueIdle /\ NetIdle /\ RestIdle
    /\ UserIdle /\ TaskIdle /\ NodeIdle /\ ISEPIdle /\ PureIdle

BatchNextStep ==
    \/ BatchIteration \/ BatchIterationError \/ BatchIterationSaveError
    \/ BatchEnd \/ BatchEndSaveError

SpecBatch == BatchInit /\ [][BatchNextStep]_vars

(***************************************************************************)
(* SpecQueues: the three queues of one ISEPClient.  The transport's        *)
(* handlers put messages, the polling loops call receive_beacon,           *)
(* receive_task and receive_result with a timeout.                         *)
(***************************************************************************)
MaxQueued == 3          \* messages put into the queues
Senders == {"a2", "a3"}

\* queue.Queue.get(timeout=...) inside try/except: the oldest entry, or the
\* (None, None, None) sentinel once the timeout expires on an empty queue
queue_get_newest(queue) ==
    IF queue = <<>>
    THEN [ret |-> NoMsg, queue |-> queue]
    ELSE [ret |-> queue[Len(queue)], queue |-> SubSeq(queue, 1, Len(queue) - 1)]

queue_get(queue) ==
    IF queue = <<>>
    THEN [ret |-> NoMsg, queue |-> queue]
    ELSE [ret |-> Head(queue), queue |-> Tail(queue)]

\* ISEPClient.receive_beacon / receive_task / receive_result
receive_beacon(queue) == queue_get(queue)
receive_task(queue) == queue_get(queue)
receive_result(queue) == queue_get(queue)

\* what a SpecQueues step leaves alone besides the three queues
QueueFrame ==
    /\ UNCHANGED <<first_task_received, beacon_enabled, tpc, cur, new_task, bpc,
                   bcur, executing, sent, arrivals, running>>
    /\ UNCHANGED <<current_answers, full_answers, final_result, result_event,
                   answers, lpc, lmsg, mpc, index, timers, ret, tasks_to_save,
                   processed_count, log, initiated, discovered, delivered, fired_short,
                   published>>
    /\ UNCHANGED <<taskVars, isepVars, pureVars, batchVars, netVars, loopVars, startVars,
                   chainVars>>

Queued == Len(enqueued["beacon"]) + Len(enqueued["task"]) + Len(enqueued["task_result"])

\* _handle_beacon
PutBeacon ==
    /\ Queued < MaxQueued
    /\ \E sender_id \in Senders, b \in InboundBeacons :
        /\ beacon_queue' = _handle_beacon(beacon_queue, sender_id, b)
        /\ enqueued' = [enqueued EXCEPT !["beacon"] =
                            _handle_beacon(@, sender_id, b)]
    /\ UNCHANGED <<subtask_queue, task_result_queue, dequeued, received>>
    /\ QueueFrame

\* _handle_task
PutTask ==
    /\ Queued < MaxQueued
    /\ \E sender_id \in Senders :
        /\ subtask_queue' = _handle_task(subtask_queue, sender_id, WireTask(0, 0), FALSE)
        /\ enqueued' = [enqueued EXCEPT !["task"] =
                            _handle_task(@, sender_id, WireTask(0, 0), FALSE)]
    /\ UNCHANGED <<beacon_queue, task_result_queue, dequeued, received>>
    /\ QueueFrame

\* _handle_task_result
PutResult ==
    /\ Queued < MaxQueued
    /\ \E sender_id \in Senders, v \in ResultValues :
        LET result == submit_result("u1", v, <<Background>>).data
        IN  /\ task_result_queue' =
                    _handle_task_result(task_result_queue, sender_id, result, 0)
            /\ enqueued' = [enqueued EXCEPT !["task_result"] =
                                _handle_task_result(@, sender_id, result, 0)]
    /\ UNCHANGED <<beacon_queue, subtask_queue, dequeued, received>>
    /\ QueueFrame

\* bookkeeping of one receive_* call on queue q that returned got
Returned(q, was_empty, got) ==
    /\ received' = [queue |-> q, was_empty |-> was_empty, ret |-> got]
    /\ dequeued' = IF got = NoMsg THEN dequeued
                   ELSE [dequeued EXCEPT ![q] = Append(@, got)]

ReceiveBeacon ==
    /\ beacon_queue' = receive_beacon(beacon_queue).queue
    /\ Returned("beacon", beacon_queue = <<>>, receive_beacon(beacon_queue).ret)
    /\ UNCHANGED <<subtask_queue, task_result_queue, enqueued>>
    /\ QueueFrame

ReceiveTask ==
    /\ subtask_queue' = receive_task(subtask_queue).queue
    /\ Returned("task", subtask_queue = <<>>, receive_task(subtask_queue).ret)
    /\ UNCHANGED <<beacon_queue, task_result_queue, enqueued>>
    /\ QueueFrame

ReceiveResult ==
    /\ task_result_queue' = receive_result(task_result_queue).queue
    /\ Returned("task_result", task_result_queue = <<>>,
                receive_result(task_result_queue).ret)
    /\ UNCHANGED <<beacon_queue, subtask_queue, enqueued>>
    /\ QueueFrame

QueuesInit == TaskIdle /\ NodeIdle /\ ISEPIdle /\ PureIdle /\ UserIdle /\ BatchIdle

QueuesNext ==
    \/ PutBeacon \/ PutTask \/ PutResult
    \/ ReceiveBeacon \/ ReceiveTask \/ ReceiveResult

SpecQueues == QueuesInit /\ [][QueuesNext]_vars

(***************************************************************************)
(* SpecNet: NetworkAdapter.broadcast of one message by one node, and the   *)
(* _receive_loop of each neighbor.  send is synchronous: it connects,      *)
(* writes the frame and waits for the acknowledgment of the receiver.      *)
(***************************************************************************)
\* msg_type values a caller passes to send; "" stands for an envelope whose
\* msg_type is missing ("not msg_type" in _handle_message)
MsgTypes == {"beacon", "ping", ""}

\* ISEPClient.__init__: the msg_types with a registered handler
Handlers == {"beacon", "beacon_response", "task", "task_result"}

\* broadcast lines 128-131: the neighbors the loop visits, in dict order
Targets(ex) == SelectSeq(Neighbors, LAMBDA n : n \notin ex)

\* send lines 99-107: the next neighbor of the loop, send is entered
SendBegin ==
    /\ spc = "next"
    /\ todo # <<>>
    /\ starget' = Head(todo)
    /\ todo' = Tail(todo)
    /\ attempts' = [attempts EXCEPT ![Head(todo)] = @ + 1]
    /\ spc' = "connect"
    /\ UNCHANGED <<bc_msg_type, exclude, conn, ack, send_ret, handler_ran>>
    /\ OnlyNet

\* a failed connect that ends the whole broadcast
SendConnectFailAbort ==
    /\ spc = "connect"
    /\ send_ret' = [send_ret EXCEPT ![starget] = "false"]
    /\ todo' = <<>>
    /\ spc' = "next"
    /\ UNCHANGED <<bc_msg_type, exclude, starget, conn, ack, attempts, handler_ran>>
    /\ OnlyNet

\* send lines 104-105 and 116-118: connect is refused or times out
\* (socket.error), send returns False
SendConnectFail ==
    /\ spc = "connect"
    /\ send_ret' = [send_ret EXCEPT ![starget] = "false"]
    /\ spc' = "next"
    /\ UNCHANGED <<bc_msg_type, exclude, todo, starget, conn, ack, attempts,
                   handler_ran>>
    /\ OnlyNet

\* send lines 105-113: connected, the length prefix and the body are written
SendFrame ==
    /\ spc = "connect"
    /\ conn' = [conn EXCEPT ![starget] = "frame"]
    /\ spc' = "await"
    /\ UNCHANGED <<bc_msg_type, exclude, todo, starget, ack, attempts, send_ret,
                   handler_ran>>
    /\ OnlyNet

\* send lines 113-114: _receive_response reads the acknowledgment; send
\* returns response.get("status") == "success"
SendAcked ==
    /\ spc = "await"
    /\ ack[starget] = "success"
    /\ send_ret' = [send_ret EXCEPT ![starget] = "true"]
    /\ spc' = "next"
    /\ UNCHANGED <<bc_msg_type, exclude, todo, starget, conn, ack, attempts,
                   handler_ran>>
    /\ OnlyNet

\* _receive_response lines 226-249: the connection was closed without an
\* acknowledgment, or none came within the 5 s timeout; send returns False
SendNotAcked ==
    /\ spc = "await"
    /\ ack[starget] \in {"none", "closed"}
    /\ send_ret' = [send_ret EXCEPT ![starget] = "false"]
    /\ spc' = "next"
    /\ UNCHANGED <<bc_msg_type, exclude, todo, starget, conn, ack, attempts,
                   handler_ran>>
    /\ OnlyNet

\* broadcast line 129: the loop over the neighbors is over
BroadcastReturn ==
    /\ spc = "next"
    /\ todo = <<>>
    /\ spc' = "done"
    /\ UNCHANGED <<bc_msg_type, exclude, todo, starget, conn, ack, attempts,
                   send_ret, handler_ran>>
    /\ OnlyNet

\* _receive_loop lines 156-171: the frame is incomplete; "continue" closes
\* the connection without an acknowledgment
RecvShortFrame(n) ==
    /\ conn[n] = "frame"
    /\ conn' = [conn EXCEPT ![n] = "closed"]
    /\ ack' = [ack EXCEPT ![n] = "closed"]
    /\ UNCHANGED <<bc_msg_type, exclude, todo, spc, starget, attempts, send_ret,
                   handler_ran>>
    /\ OnlyNet

\* _receive_loop lines 173-185: the body is decoded with json.loads and the
\* {"status": "success"} acknowledgment is written
RecvAck(n) ==
    /\ conn[n] = "frame"
    /\ conn' = [conn EXCEPT ![n] = "acked"]
    /\ ack' = [ack EXCEPT ![n] = "success"]
    /\ UNCHANGED <<bc_msg_type, exclude, todo, spc, starget, attempts, send_ret,
                   handler_ran>>
    /\ OnlyNet

\* _receive_loop line 188 and _handle_message: an envelope with a missing
\* field or an unregistered msg_type is logged and dropped, otherwise the
\* registered handler runs
RecvHandle(n) ==
    /\ conn[n] = "acked"
    /\ conn' = [conn EXCEPT ![n] = "closed"]
    /\ handler_ran' = [handler_ran EXCEPT ![n] =
                            bc_msg_type # "" /\ bc_msg_type \in Handlers]
    /\ UNCHANGED <<bc_msg_type, exclude, todo, spc, starget, ack, attempts,
                   send_ret>>
    /\ OnlyNet

NetInit ==
    /\ bc_msg_type \in MsgTypes
    /\ exclude \in SUBSET NeighborIds
    /\ todo = Targets(exclude)
    /\ spc = "next"
    /\ starget = ""
    /\ conn = [n \in NeighborIds |-> "none"]
    /\ ack = [n \in NeighborIds |-> "none"]
    /\ attempts = [n \in NeighborIds |-> 0]
    /\ send_ret = [n \in NeighborIds |-> "none"]
    /\ handler_ran = [n \in NeighborIds |-> FALSE]
    /\ TaskIdle /\ NodeIdle /\ ISEPIdle /\ PureIdle /\ UserIdle
    /\ tasks = 0 /\ max_tasks = 0 /\ raised = 0
    /\ QueueIdle /\ RestIdle

NetNext ==
    \/ SendBegin \/ SendConnectFail \/ SendFrame \/ SendAcked \/ SendNotAcked
    \/ BroadcastReturn
    \/ \E n \in NeighborIds : RecvShortFrame(n) \/ RecvAck(n) \/ RecvHandle(n)

SpecNet == NetInit /\ [][NetNext]_vars

(***************************************************************************)
(* SpecLoops: the control structure of the four polling loops.  Each is a  *)
(* "while" around a try block: receive one message, handle it, and on any  *)
(* exception log it in the except clause.  The beacon, task and result     *)
(* loops test self.running, the transport loop is "while True".            *)
(***************************************************************************)
MaxLoopMsgs == 2        \* messages that arrive for the loops

\* a message for loop l arrives (a connection, or a queued message)
LoopArrive(l) ==
    /\ running
    /\ arrived < MaxLoopMsgs
    /\ arrived' = arrived + 1
    /\ inbox' = [inbox EXCEPT ![l] = @ + 1]
    /\ UNCHANGED <<loop_pc, failed, handled_after>>
    /\ OnlyLoops

\* the while condition: "while True" (_receive_loop line 154),
\* "while self.running" (lines 102, 130 of agent_register.py, 108 of
\* user_register.py)
LoopTop(l) ==
    /\ loop_pc[l] = "top"
    /\ loop_pc' = [loop_pc EXCEPT ![l] =
                        IF l = "transport" \/ running THEN "recv" ELSE "stopped"]
    /\ UNCHANGED <<inbox, arrived, failed, handled_after>>
    /\ OnlyLoops

\* accept / receive_beacon / receive_task / receive_result: a message is
\* taken, or the 1 s timeout yields the sentinel and the loop sleeps; accept
\* raises once network.close() has closed the server socket
LoopReceive(l) ==
    /\ loop_pc[l] = "recv"
    /\ IF l = "transport" /\ ~running
       THEN /\ loop_pc' = [loop_pc EXCEPT ![l] = "except"]
            /\ UNCHANGED inbox
       ELSE IF inbox[l] > 0
       THEN /\ loop_pc' = [loop_pc EXCEPT ![l] = "handle"]
            /\ inbox' = [inbox EXCEPT ![l] = @ - 1]
       ELSE /\ loop_pc' = [loop_pc EXCEPT ![l] = "top"]
            /\ UNCHANGED inbox
    /\ UNCHANGED <<arrived, failed, handled_after>>
    /\ OnlyLoops

\* the body of the try block handles the message and returns
LoopHandle(l) ==
    /\ loop_pc[l] = "handle"
    /\ loop_pc' = [loop_pc EXCEPT ![l] = "top"]
    /\ handled_after' = [handled_after EXCEPT ![l] = @ \/ failed[l]]
    /\ UNCHANGED <<inbox, arrived, failed>>
    /\ OnlyLoops

\* the body of the try block raises while it handles the message
LoopHandleRaise(l) ==
    /\ loop_pc[l] = "handle"
    /\ loop_pc' = [loop_pc EXCEPT ![l] = "except"]
    /\ failed' = [failed EXCEPT ![l] = TRUE]
    /\ UNCHANGED <<inbox, arrived, handled_after>>
    /\ OnlyLoops

\* an except clause that leaves the loop
LoopExceptBreak(l) ==
    /\ loop_pc[l] = "except"
    /\ loop_pc' = [loop_pc EXCEPT ![l] = "stopped"]
    /\ UNCHANGED <<inbox, arrived, failed, handled_after>>
    /\ OnlyLoops

\* "except Exception as e": the error is logged and the loop goes to its
\* next iteration (_receive_loop lines 190-191, _listen_beacon 112-114,
\* _listen_tasks 167-173, _listen_results 129-132)
LoopExcept(l) ==
    /\ loop_pc[l] = "except"
    /\ loop_pc' = [loop_pc EXCEPT ![l] = "top"]
    /\ UNCHANGED <<inbox, arrived, failed, handled_after>>
    /\ OnlyLoops

\* _wait_for_stop sets running = False
LoopStop ==
    /\ Stop
    /\ UNCHANGED loopVars

LoopsInit ==
    /\ TaskIdle /\ NodeIdle /\ ISEPIdle /\ PureIdle /\ UserIdle /\ BatchIdle

LoopsNext ==
    \/ \E l \in Loops : LoopArrive(l)
    \/ \E l \in Loops : LoopTop(l)
    \/ \E l \in Loops : LoopReceive(l)
    \/ \E l \in Loops : LoopHandle(l)
    \/ \E l \in Loops : LoopHandleRaise(l)
    \/ \E l \in Loops : LoopExcept(l)
    \/ LoopStop

\* every loop thread keeps being scheduled
SpecLoops ==
    /\ LoopsInit
    /\ [][LoopsNext]_vars
    /\ \A l \in Loops :
        WF_vars(LoopTop(l) \/ LoopReceive(l) \/ LoopHandle(l) \/ LoopExcept(l))

(***************************************************************************)
(* SpecFrame: the framing of one envelope by NetworkAdapter.send and its   *)
(* reassembly by NetworkAdapter._receive_loop.  Here fn_in is the text of  *)
(* the envelope, fn_out the connection: the bytes the sender has written,  *)
(* the bytes still in flight and what the receiver has read so far.        *)
(***************************************************************************)
MaxText == 2            \* characters of an envelope
MaxChunk == 2           \* most bytes one recv of the body returns

\* characters of an envelope: plain, one that JSON must escape, one outside
\* ASCII
TextChars == {"a", "\"", "e'"}

\* json.dumps(message) with ensure_ascii left at its default: the text in
\* quotes, a quote escaped with a backslash, a character outside ASCII
\* written as é
json_dumps_char(c) ==
    IF c = "\"" THEN <<"\\", "\"">>
    ELSE IF c = "e'" THEN <<"\\", "u", "0", "0", "e", "9">>
    ELSE <<c>>

RECURSIVE json_dumps_body(_)
json_dumps_body(t) ==
    IF t = <<>> THEN <<>> ELSE json_dumps_char(Head(t)) \o json_dumps_body(Tail(t))

json_dumps(t) == <<"\"">> \o json_dumps_body(t) \o <<"\"">>

\* str.encode('utf-8') of ASCII text: one byte for each character
Utf8Byte(c) ==
    CASE c = "\"" -> 34
      [] c = "\\" -> 92
      [] c = "0" -> 48
      [] c = "9" -> 57
      [] c = "a" -> 97
      [] c = "e" -> 101
      [] c = "u" -> 117

encode_utf8(j) == [i \in 1..Len(j) |-> Utf8Byte(j[i])]

\* n.to_bytes(4, 'little')
to_bytes_little(n) ==
    <<n % 256, (n \div 256) % 256, (n \div 65536) % 256, (n \div 16777216) % 256>>

\* n.to_bytes(4, 'big')
to_bytes(n) ==
    <<(n \div 16777216) % 256, (n \div 65536) % 256, (n \div 256) % 256, n % 256>>

\* int.from_bytes(b, 'big')
RECURSIVE from_bytes(_)
from_bytes(b) ==
    IF b = <<>> THEN 0 ELSE 256 * from_bytes(SubSeq(b, 1, Len(b) - 1)) + b[Len(b)]

NoConnection == [prefix |-> <<>>, body |-> <<>>, wire |-> <<>>,
                 msg_length |-> 0, msg_bytes |-> <<>>]

\* send lines 104-110: the length prefix, then the body
FrameSend ==
    /\ fn_pc = "ready"
    /\ LET msg_bytes == encode_utf8(json_dumps(fn_in))
           len_bytes == to_bytes(Len(msg_bytes))
       IN  fn_out' = [NoConnection EXCEPT !.prefix = len_bytes,
                                          !.body = msg_bytes,
                                          !.wire = len_bytes \o msg_bytes]
    /\ fn_pc' = "sent"
    /\ UNCHANGED <<fn_in, fn_k>>
    /\ OnlyPure

\* _receive_loop lines 158-162: conn.recv(4) and int.from_bytes
FrameRecvPrefix ==
    /\ fn_pc = "sent"
    /\ fn_out' = [fn_out EXCEPT !.msg_length = from_bytes(SubSeq(fn_out.wire, 1, 4)),
                                !.wire = SubSeq(fn_out.wire, 5, Len(fn_out.wire))]
    /\ fn_pc' = "body"
    /\ UNCHANGED <<fn_in, fn_k>>
    /\ OnlyPure

\* lines 165-170: one recv of at most min(4096, remaining) bytes
FrameRecvChunk ==
    /\ fn_pc = "body"
    /\ Len(fn_out.msg_bytes) < fn_out.msg_length
    /\ fn_out.wire # <<>>
    /\ \E n \in 1..MaxChunk :
        /\ n <= fn_out.msg_length - Len(fn_out.msg_bytes)
        /\ n <= Len(fn_out.wire)
        /\ fn_out' = [fn_out EXCEPT
                        !.msg_bytes = @ \o SubSeq(fn_out.wire, 1, n),
                        !.wire = SubSeq(fn_out.wire, n + 1, Len(fn_out.wire))]
    /\ UNCHANGED <<fn_in, fn_k, fn_pc>>
    /\ OnlyPure

\* lines 168-169, 172-173: recv returns nothing because the peer is gone;
\* the frame is dropped
FrameRecvClosed ==
    /\ fn_pc = "body"
    /\ Len(fn_out.msg_bytes) < fn_out.msg_length
    /\ fn_pc' = "dropped"
    /\ UNCHANGED <<fn_in, fn_k, fn_out>>
    /\ OnlyPure

\* lines 172-177: the frame is complete and is decoded
FrameRecvDone ==
    /\ fn_pc = "body"
    /\ Len(fn_out.msg_bytes) = fn_out.msg_length
    /\ fn_pc' = "parsed"
    /\ UNCHANGED <<fn_in, fn_k, fn_out>>
    /\ OnlyPure

FrameInit ==
    /\ fn_in \in SeqsUpTo(TextChars, MaxText)
    /\ fn_k = 0
    /\ fn_out = NoConnection
    /\ fn_pc = "ready"
    /\ TaskIdle /\ NodeIdle /\ ISEPIdle /\ UserIdle /\ BatchIdle

FrameNext ==
    \/ FrameSend
    \/ FrameRecvPrefix
    \/ FrameRecvChunk
    \/ FrameRecvClosed
    \/ FrameRecvDone

SpecFrame == FrameInit /\ [][FrameNext]_vars

(***************************************************************************)
(* SpecMatch: CapabilityManager.match on every list of capability tags and *)
(* every requirement.  Here fn_in is the capability_tags argument of the   *)
(* constructor, fn_k the requirement and fn_out the score in thousandths   *)
(* (the code rounds to three decimals).                                    *)
(***************************************************************************)
MaxTagLen == 2          \* characters of a tag or requirement
MaxTags == 2            \* capability tags given to the constructor

TagChars == {"a", "B"}

\* str.lower()
lower_char(c) == IF c = "B" THEN "b" ELSE c

lower(t) == [i \in 1..Len(t) |-> lower_char(t[i])]

\* CapabilityManager.__init__: list(set([tag.lower() for tag in tags]))
Capabilities(capability_tags) ==
    {lower(capability_tags[i]) : i \in 1..Len(capability_tags)}

\* the blocks a[i..i+k-1] = b[j..j+k-1] inside a[alo..ahi], b[blo..bhi]
Blocks(a, b, alo, ahi, blo, bhi) ==
    {m \in (alo..ahi) \X (blo..bhi) \X (1..Len(a)) :
        /\ m[1] + m[3] - 1 <= ahi
        /\ m[2] + m[3] - 1 <= bhi
        /\ \A e \in 0..(m[3] - 1) : a[m[1] + e] = b[m[2] + e]}

\* difflib.SequenceMatcher.find_longest_match: the longest block, of those
\* the one that starts earliest in a, of those the one earliest in b
find_longest_match(a, b, alo, ahi, blo, bhi) ==
    CHOOSE m \in Blocks(a, b, alo, ahi, blo, bhi) :
        \A o \in Blocks(a, b, alo, ahi, blo, bhi) :
            \/ o[3] < m[3]
            \/ o[3] = m[3] /\ m[1] < o[1]
            \/ o[3] = m[3] /\ m[1] = o[1] /\ m[2] <= o[2]

\* difflib.SequenceMatcher.get_matching_blocks: the number of matched
\* characters, found by recursion on the pieces left and right of the
\* longest block
RECURSIVE matched(_, _, _, _, _, _)
matched(a, b, alo, ahi, blo, bhi) ==
    IF Blocks(a, b, alo, ahi, blo, bhi) = {} THEN 0
    ELSE LET m == find_longest_match(a, b, alo, ahi, blo, bhi)
         IN  m[3] + matched(a, b, alo, m[1] - 1, blo, m[2] - 1)
                  + matched(a, b, m[1] + m[3], ahi, m[2] + m[3], bhi)

\* difflib.SequenceMatcher.ratio: 2.0 * matches / length, 1.0 when both
\* strings are empty; as the fraction <<numerator, denominator>>
ratio(a, b) ==
    IF Len(a) + Len(b) = 0 THEN <<1, 1>>
    ELSE <<2 * matched(a, b, 1, Len(a), 1, Len(b)), Len(a) + Len(b)>>

\* round(x, 3) of a fraction, in thousandths
round3(x) == (2000 * x[1] + x[2]) \div (2 * x[2])

\* max of best_score and the ratios seen
best_of(ratios) ==
    CHOOSE x \in ratios : \A y \in ratios : y[1] * x[2] <= x[1] * y[2]

\* match without normalising the requirement
match_as_given(capabilities, requirement) ==
    round3(best_of({<<0, 1>>} \cup {ratio(tag, requirement) : tag \in capabilities}))

\* CapabilityManager.match
match(capabilities, requirement) ==
    round3(best_of({<<0, 1>>} \cup
                   {ratio(tag, lower(requirement)) : tag \in capabilities}))

MatchInit ==
    /\ fn_in \in SeqsUpTo(SeqsUpTo(TagChars, MaxTagLen), MaxTags)
    /\ fn_k \in SeqsUpTo(TagChars, MaxTagLen)
    /\ fn_out = <<>>
    /\ fn_pc = "ready"
    /\ TaskIdle /\ NodeIdle /\ ISEPIdle /\ UserIdle /\ BatchIdle

ApplyMatch ==
    /\ fn_pc = "ready"
    /\ fn_out' = match(Capabilities(fn_in), fn_k)
    /\ fn_pc' = "done"
    /\ UNCHANGED <<fn_in, fn_k>>
    /\ OnlyPure

SpecMatch == MatchInit /\ [][ApplyMatch]_vars

(***************************************************************************)
(* SpecStart: the start of an agent or user process, from main to the      *)
(* point where the node runs or the process has exited.                    *)
(***************************************************************************)
MaxCotArg == 2          \* largest --cot_num tried

\* what can be at config_path: nothing, a file that is not YAML, an empty
\* file, a file with settings
ConfigFiles == {"missing", "invalid", "empty", "settings"}

\* runtime/config.py load_config_from_file: the configuration it returns and
\* the message it prints; it raises in none of the cases
load_config_from_file(f) ==
    CASE f = "missing"  -> [config |-> "default", printed |-> {"[Config] Config file not found"}]
      [] f = "invalid"  -> [config |-> "default", printed |-> {"[Config] Error loading YAML file"}]
      [] f = "empty"    -> [config |-> "default", printed |-> {}]
      [] f = "settings" -> [config |-> "merged", printed |-> {}]

\* user main lines 362-364: --cot_num below 1 ends the process
MainCotCheck ==
    /\ start_pc = "main"
    /\ IF proc = "user" /\ cot_arg < 1
       THEN /\ start_pc' = "exited"
            /\ printed' = printed \cup {"[ERROR] CoT number must be at least 1"}
       ELSE /\ start_pc' = "load"
            /\ UNCHANGED printed
    /\ UNCHANGED <<proc, config_file, bind_ok, cot_arg, test_file, config,
                   server_started, loops_started>>
    /\ OnlyStart

\* AgentRunner.__init__ line 57, UserRunner.__init__ line 68
LoadConfig ==
    /\ start_pc = "load"
    /\ config' = load_config_from_file(config_file).config
    /\ printed' = printed \cup load_config_from_file(config_file).printed
    /\ start_pc' = "construct"
    /\ UNCHANGED <<proc, config_file, bind_ok, cot_arg, test_file,
                   server_started, loops_started>>
    /\ OnlyStart

\* AgentRunner.__init__ line 58: Agent(self.config) passes the configuration
\* as the first positional parameter, node_id, so Agent takes the
\* _init_from_params branch, which leaves network and isep_client None
ConstructAgent ==
    /\ start_pc = "construct"
    /\ proc = "agent"
    /\ printed' = printed \cup {"[AGENT] Initialized agent"}
    /\ start_pc' = "start"
    /\ UNCHANGED <<proc, config_file, bind_ok, cot_arg, test_file, config,
                   server_started, loops_started>>
    /\ OnlyStart

\* UserRunner.__init__ line 69: User.__init__ builds the NetworkAdapter,
\* whose _start_server binds and starts the receive thread; a failing bind
\* raises OSError, which main reports in "except Exception"
ConstructUser ==
    /\ start_pc = "construct"
    /\ proc = "user"
    /\ IF bind_ok
       THEN /\ server_started' = TRUE
            /\ printed' = printed \cup {"network adapter started"}
            /\ start_pc' = "start"
       ELSE /\ printed' = printed \cup {"[ERROR] Failed to start user runner"}
            /\ start_pc' = "exited"
            /\ UNCHANGED server_started
    /\ UNCHANGED <<proc, config_file, bind_ok, cot_arg, test_file, config,
                   loops_started>>
    /\ OnlyStart

\* AgentRunner.start lines 78-90, UserRunner.start lines 91-96
RunnerStart ==
    /\ start_pc = "start"
    /\ loops_started' = TRUE
    /\ printed' = printed \cup {"[STARTUP]"}
    /\ start_pc' = IF proc = "agent" THEN "wait_for_stop" ELSE "load_tasks"
    /\ UNCHANGED <<proc, config_file, bind_ok, cot_arg, test_file, config,
                   server_started>>
    /\ OnlyStart

\* user main lines 380-385: the batch runs when ./test.jsonl exists
UserLoadTasks ==
    /\ start_pc = "load_tasks"
    /\ IF test_file
       THEN UNCHANGED printed
       ELSE printed' = printed \cup {"[WARNING] Test file not found"}
    /\ start_pc' = "alive"
    /\ UNCHANGED <<proc, config_file, bind_ok, cot_arg, test_file, config,
                   server_started, loops_started>>
    /\ OnlyStart

\* a stop command (agent) or Ctrl+C (user) ends the process
StartStop ==
    /\ start_pc \in {"wait_for_stop", "alive"}
    /\ start_pc' = "exited"
    /\ printed' = printed \cup {"[SHUTDOWN]"}
    /\ UNCHANGED <<proc, config_file, bind_ok, cot_arg, test_file, config,
                   server_started, loops_started>>
    /\ OnlyStart

StartInit ==
    /\ proc \in {"agent", "user"}
    /\ config_file \in ConfigFiles
    /\ bind_ok \in BOOLEAN
    /\ cot_arg \in 0..MaxCotArg
    /\ test_file \in BOOLEAN
    /\ start_pc = "main"
    /\ config = "none"
    /\ server_started = FALSE
    /\ loops_started = FALSE
    /\ printed = {}
    /\ TaskIdle /\ NodeIdle /\ ISEPIdle /\ PureIdle /\ UserIdle
    /\ tasks = 0 /\ max_tasks = 0 /\ raised = 0
    /\ QueueIdle /\ NetIdle /\ LoopIdle /\ ChainIdle

StartNext ==
    \/ MainCotCheck
    \/ LoadConfig
    \/ ConstructAgent
    \/ ConstructUser
    \/ RunnerStart
    \/ UserLoadTasks
    \/ StartStop

SpecStart == StartInit /\ [][StartNext]_vars

(***************************************************************************)
(* SpecSymphony: SymphonyOrchestrator.execute_task on every list of        *)
(* registered agents, every list of requirements and every cot_count.      *)
(* Here fn_in is the pair of self.agents and task.requirements, fn_k the   *)
(* cot_count and fn_out what the call yields.  A string the code tests     *)
(* with startswith is held as its marker and the rest of its text.         *)
(***************************************************************************)
MaxAgents == 2          \* registered agents
MaxReqs == 2            \* requirements of the task
MaxCot == 2             \* largest cot_count

\* capability lists of the agents and requirements of the task
AgentCapabilities == {<<>>, <<<<"a">>>>, <<<<"B", "a">>>>}
Requirements == {<<"a">>, <<"b", "a">>, <<"B">>}

\* base_model None: the simulated branch; otherwise Agent.execute_task is
\* called, which returns or raises
BaseModels == {"none", "returns", "raises"}

RegisteredAgents ==
    UNION {[1..n -> [capabilities : AgentCapabilities, base_model : BaseModels]]
            : n \in 0..MaxAgents}

\* _decompose_task: one subtask for each requirement, its id made of the
\* task id and the index
Symphony_decompose_task(requirements) ==
    [i \in 1..Len(requirements) |->
        [id |-> "t1_sub_" \o ToString(i), requirement |-> requirements[i]]]

\* sorted(..., reverse=True) on the score, stable; pairs are <<agent, score>>
RECURSIVE SuitablePairs(_, _, _)
SuitablePairs(agents, requirement, i) ==
    IF i > Len(agents) THEN <<>>
    ELSE LET match_score == match(Capabilities(agents[i].capabilities), requirement)
         IN  (IF match_score >= 300 THEN <<<<i, match_score>>>> ELSE <<>>)
                \o SuitablePairs(agents, requirement, i + 1)

\* _find_suitable_agents: subtask -> the agents (by index in self.agents)
\* that score at least 0.3, best first
_find_suitable_agents(agents, subtasks) ==
    [s \in 1..Len(subtasks) |->
        LET sorted == sorted_desc(SuitablePairs(agents, subtasks[s].requirement, 1))
        IN  [j \in 1..Len(sorted) |-> sorted[j][1]]]

\* _execute_subtask_on_agent: the simulated text, the agent's result, or an
\* exception
_execute_subtask_on_agent(agents, a, subtask) ==
    CASE agents[a].base_model = "none" ->
            [raised |-> FALSE, marker |-> "",
             text |-> "[SIMULATED] Agent a" \o ToString(a) \o " handling"]
      [] agents[a].base_model = "returns" ->
            [raised |-> FALSE, marker |-> "", text |-> "r" \o ToString(a)]
      [] agents[a].base_model = "raises" ->
            [raised |-> TRUE, marker |-> "", text |-> "Agent execution failed"]

\* the call of lines 160-166 without its try block
cot_result_uncaught(agents, a, subtask) ==
    _execute_subtask_on_agent(agents, a, subtask)

\* lines 160-166: the result of one agent, or "[AGENT_ERROR] ..." when the
\* agent raised
cot_result(agents, a, subtask) ==
    LET r == _execute_subtask_on_agent(agents, a, subtask)
    IN  IF r.raised
        THEN [raised |-> FALSE, marker |-> "[AGENT_ERROR]", text |-> r.text]
        ELSE r

\* max(valid_results, key=len): the first of the longest
FirstLongest(rs) ==
    LET i == CHOOSE k \in 1..Len(rs) :
                /\ \A j \in 1..Len(rs) : Len(rs[j].text) <= Len(rs[k].text)
                /\ \A j \in 1..(k - 1) : Len(rs[j].text) < Len(rs[k].text)
    IN  rs[i]

\* _vote_on_results
_vote_on_results(cot_results) ==
    IF Len(cot_results) = 1 THEN cot_results[1]
    ELSE LET valid_results ==
                SelectSeq(cot_results,
                          LAMBDA r : r.marker \notin {"[ERROR]", "[AGENT_ERROR]"})
         IN  IF valid_results = <<>> THEN cot_results[1]
             ELSE FirstLongest(valid_results)

\* _execute_with_cot_voting, the body of the loop for one subtask
SubtaskResult(agents, available_agents, subtask, cot_count) ==
    IF available_agents = <<>>
    THEN [raised |-> FALSE, marker |-> "[ERROR]", text |-> "No agents available"]
    ELSE LET cot_results ==
                [i \in 1..Min(cot_count, Len(available_agents)) |->
                    cot_result(agents, available_agents[i], subtask)]
         IN  IF \E i \in 1..Len(cot_results) : cot_results[i].raised
             THEN [raised |-> TRUE, marker |-> "", text |-> ""]
             ELSE IF cot_results # <<>>
             THEN _vote_on_results(cot_results)
             ELSE [raised |-> FALSE, marker |-> "[ERROR]", text |-> "All agents failed"]

\* _execute_with_cot_voting: subtask -> its result; results is a dict keyed
\* by the subtask id
_execute_with_cot_voting(agents, subtasks, agent_assignments, cot_count) ==
    [s \in 1..Len(subtasks) |->
        [id |-> subtasks[s].id,
         result |-> SubtaskResult(agents, agent_assignments[s], subtasks[s], cot_count)]]

\* _aggregate_results: the numbered entries, one for each key of results
_aggregate_results(results) ==
    [i \in 1..Len(results) |->
        [number |-> i, result |-> results[i].result]]

\* SymphonyOrchestrator.execute_task
Symphony_execute_task(agents, requirements, cot_count) ==
    LET subtasks == Symphony_decompose_task(requirements)
        agent_assignments == _find_suitable_agents(agents, subtasks)
        results == _execute_with_cot_voting(agents, subtasks, agent_assignments, cot_count)
    IN  IF agent_assignments = <<>>
        THEN [outcome |-> "returned", entries |-> <<>>,
              text |-> "[ERROR] No suitable agents found for task execution"]
        ELSE IF \E s \in 1..Len(results) : results[s].result.raised
        THEN [outcome |-> "raised", entries |-> <<>>, text |-> ""]
        ELSE [outcome |-> "returned", entries |-> _aggregate_results(results),
              text |-> "## Symphony Multi-Agent Task Execution Result"]

SymphonyInit ==
    /\ fn_in \in RegisteredAgents \X SeqsUpTo(Requirements, MaxReqs)
    /\ fn_k \in 0..MaxCot
    /\ fn_out = <<>>
    /\ fn_pc = "ready"
    /\ TaskIdle /\ NodeIdle /\ ISEPIdle /\ UserIdle /\ BatchIdle

ApplyExecuteTask ==
    /\ fn_pc = "ready"
    /\ fn_out' = Symphony_execute_task(fn_in[1], fn_in[2], fn_k)
    /\ fn_pc' = "done"
    /\ UNCHANGED <<fn_in, fn_k>>
    /\ OnlyPure

SpecSymphony == SymphonyInit /\ [][ApplyExecuteTask]_vars

(***************************************************************************)
(* SpecDispatch: NetworkAdapter._handle_message with the four handlers     *)
(* ISEPClient.__init__ registers.  Here fn_in is the ISEPClient (its three *)
(* queues and pending_tasks), fn_k the message handed to _handle_message   *)
(* and fn_out the handler that ran for it.  A message is a dict: a         *)
(* function on the envelope fields it has.                                 *)
(***************************************************************************)
MaxDispatched == 2      \* messages handed to _handle_message

EnvelopeFields == {"sender_id", "target_id", "msg_type", "data", "timestamp"}

\* envelopes as NetworkAdapter.send builds them, also with an empty
\* msg_type or sender_id and with a msg_type nobody registered
FullEnvelopes ==
    [ sender_id : {"a2", ""}, target_id : {"a1"},
      msg_type : Handlers \cup {"ping", ""},
      data : {[task_id |-> "1"], [task_id |-> "2"]},
      timestamp : {1} ]

\* the envelopes, complete or with one field missing
Envelopes ==
    {[f \in D |-> e[f]] : e \in FullEnvelopes,
                          D \in {EnvelopeFields} \cup {EnvelopeFields \ {g} : g \in EnvelopeFields}}

None == "<None>"

\* dict.get(key)
Get(dict, key) == IF key \in DOMAIN dict THEN dict[key] ELSE None

\* Python's "not x" for a str or None
Falsy(x) == x = None \/ x = ""

\* ISEPClient.__init__: empty queues; one discovery window is open
NewClient ==
    [ beacon_queue |-> <<>>, subtask_queue |-> <<>>, task_result_queue |-> <<>>,
      pending_tasks |-> [k \in {"1"} |-> <<>>] ]

\* self.handlers[msg_type](sender_id, data) for the handlers of ISEPClient
CallHandler(client, msg_type, sender_id, data) ==
    CASE msg_type = "beacon" ->
            [client EXCEPT !.beacon_queue = _handle_beacon(@, sender_id, data)]
      [] msg_type = "beacon_response" ->
            [client EXCEPT !.pending_tasks = _handle_beacon_response(@, data)]
      [] msg_type = "task" ->
            [client EXCEPT !.subtask_queue = _handle_task(@, sender_id, data, FALSE)]
      [] msg_type = "task_result" ->
            [client EXCEPT !.task_result_queue = _handle_task_result(@, sender_id, data, 0)]

\* _handle_message testing only that the message has data
_handle_message_unchecked(client, message) ==
    LET msg_type == Get(message, "msg_type")
        sender_id == Get(message, "sender_id")
        data == Get(message, "data")
    IN  IF "data" \notin DOMAIN message
        THEN [client |-> client, handler |-> None]
        ELSE IF msg_type \in Handlers
        THEN [client |-> CallHandler(client, msg_type, sender_id, data),
              handler |-> msg_type]
        ELSE [client |-> client, handler |-> None]

\* NetworkAdapter._handle_message: the client afterwards and the handler
\* that ran
_handle_message(client, message) ==
    LET msg_type == Get(message, "msg_type")
        sender_id == Get(message, "sender_id")
        data == Get(message, "data")
    IN  IF Falsy(msg_type) \/ Falsy(sender_id) \/ "data" \notin DOMAIN message
        THEN [client |-> client, handler |-> None]
        ELSE IF msg_type \in Handlers
        THEN [client |-> CallHandler(client, msg_type, sender_id, data),
              handler |-> msg_type]
        ELSE [client |-> client, handler |-> None]

DispatchInit ==
    /\ fn_in = NewClient
    /\ fn_k = <<>>
    /\ fn_out = <<>>
    /\ fn_pc = 0
    /\ TaskIdle /\ NodeIdle /\ ISEPIdle /\ UserIdle /\ BatchIdle

\* _receive_loop line 188
HandleMessage ==
    /\ fn_pc < MaxDispatched
    /\ \E message \in Envelopes :
        /\ fn_k' = message
        /\ fn_in' = _handle_message(fn_in, message).client
        /\ fn_out' = _handle_message(fn_in, message).handler
    /\ fn_pc' = fn_pc + 1
    /\ OnlyPure

SpecDispatch == DispatchInit /\ [][HandleMessage]_vars


(***************************************************************************)
(* SpecChain: one problem, from User.initiate_task through the task loops  *)
(* of the agent nodes to the user's task_result_queue.  Every send may     *)
(* fail, every decomposition may fail or return no step, and every         *)
(* discovery window may return nobody; broken records that one of these    *)
(* happened.  A node polls receive_task with first_task_received False:    *)
(* the task loop resets the gate before every return to the poll.          *)
(***************************************************************************)
\* what broadcast_and_collect returns: (node_id, score) pairs
ChainCandidates ==
    { <<>>,
      << <<"a1", 1000>> >>,
      << <<"a2", 500>> >>,
      << <<"a1", 500>>, <<"a2", 1000>> >>,
      << <<"a1", 1000>>, <<"a2", 1000>> >> }

\* the envelope NetworkAdapter.send writes; inst names the task instance
Envelope(target_id, msg_type, data, inst) ==
    [target_id |-> target_id, msg_type |-> msg_type, data |-> data, inst |-> inst]

\* User.initiate_task: creates the task, discovers, selects consensus_count
\* executors and calls delegate_task once per selected executor
ChainInitiate ==
    /\ instances = {}
    /\ ~broken
    /\ \E executor_candidates \in ChainCandidates :
       \E sent_ok \in [1..CotNum -> BOOLEAN] :
        LET t == _create_initial_task("p1", "u1", "t1")
            call == initiate_task(executor_candidates)
            selected == call.delegated
        IN  IF call.raised
            THEN /\ broken' = TRUE
                 /\ UNCHANGED <<instances, in_flight>>
            ELSE /\ instances' = 1..Len(selected)
                 /\ in_flight' = { Envelope(selected[i][1], "task", to_dict(t), i) :
                                     i \in {j \in 1..Len(selected) : sent_ok[j]} }
                 /\ broken' = (\E i \in 1..Len(selected) : ~sent_ok[i])
    /\ UNCHANGED <<node_queue, node_pc, node_task, executed, planned, result_queue>>
    /\ OnlyChain

\* the receiver's transport thread: _handle_message calls _handle_task, which
\* puts the task on subtask_queue, or _handle_task_result, which puts the
\* result on task_result_queue
ChainDeliver ==
    /\ \E m \in in_flight :
        /\ in_flight' = in_flight \ {m}
        /\ IF m.msg_type = "task"
           THEN /\ node_queue' = [node_queue EXCEPT ![m.target_id] =
                                    Append(@, [inst |-> m.inst, task |-> m.data])]
                /\ UNCHANGED result_queue
           ELSE /\ result_queue' = Append(result_queue, m)
                /\ UNCHANGED node_queue
    /\ UNCHANGED <<instances, node_pc, node_task, executed, planned, broken>>
    /\ OnlyChain

\* the verdicts of the base model for one execute_task call
ChainOracles(d) ==
    IF d.subtask_id = 0
    THEN {o \in Oracles : o.result = "4" /\ (~o.dag_success => o.n = 0)}
    ELSE {o \in Oracles : o.result = "4" /\ o.success /\ o.dag_success /\ o.n = 0}

\* _listen_tasks lines 132-155: receive_task, execute_task and, for a
\* terminal task, submit_result; a task that is not terminal goes on to
\* assign_task.  An exception drops the task (lines 166-171)
NodeExecute(a) ==
    /\ node_pc[a] = "loop"
    /\ node_queue[a] # <<>>
    /\ LET head == Head(node_queue[a])
           d == head.task
       IN  /\ node_queue' = [node_queue EXCEPT ![a] = Tail(@)]
           /\ IF Raises(d)
              THEN UNCHANGED <<in_flight, node_pc, node_task, executed, planned, broken>>
              ELSE \E o \in ChainOracles(d) : \E sent_ok \in BOOLEAN :
                    LET nt == execute_task(d, o)
                        failed_plan == d.subtask_id = 0 /\
                                        (~o.success \/ ~o.dag_success \/ o.n = 0)
                    IN  /\ executed' = IF d.subtask_id = 0 THEN executed
                                       ELSE [executed EXCEPT ![head.inst] =
                                                Append(@, d.subtask_id)]
                        /\ planned' = IF d.subtask_id # 0 THEN planned
                                      ELSE [planned EXCEPT ![head.inst] = Len(nt.steps)]
                        /\ IF IsTerminal(nt)
                           THEN /\ in_flight' = IF sent_ok
                                    THEN in_flight \cup
                                         {Envelope(nt.user_id, "task_result",
                                            [target_id |-> nt.user_id,
                                             executer_id |-> a,
                                             result |-> nt.final_result,
                                             previous_results |-> nt.previous_results],
                                            head.inst)}
                                    ELSE in_flight
                                /\ broken' = (broken \/ failed_plan \/ ~sent_ok)
                                /\ UNCHANGED <<node_pc, node_task>>
                           ELSE /\ sent_ok
                                /\ node_pc' = [node_pc EXCEPT ![a] = "assign"]
                                /\ node_task' = [node_task EXCEPT ![a] =
                                                    [inst |-> head.inst, task |-> nt]]
                                /\ broken' = (broken \/ failed_plan)
                                /\ UNCHANGED in_flight
    /\ UNCHANGED <<instances, result_queue>>
    /\ OnlyChain

\* an assign_task that delegates to every candidate
NodeAssignAll(a) ==
    /\ node_pc[a] = "assign"
    /\ \E candidates \in ChainCandidates : \E sent_ok \in BOOLEAN :
        LET best_matches == _select_best_executors(candidates, Len(candidates), a)
        IN  /\ in_flight' = IF sent_ok
                THEN in_flight \cup
                     { Envelope(best_matches[i][1], "task", to_dict(node_task[a].task),
                                node_task[a].inst) : i \in 1..Len(best_matches) }
                ELSE in_flight
            /\ broken' = (broken \/ best_matches = <<>> \/ ~sent_ok)
    /\ node_pc' = [node_pc EXCEPT ![a] = "loop"]
    /\ node_task' = [node_task EXCEPT ![a] = NoInstance]
    /\ UNCHANGED <<instances, node_queue, executed, planned, result_queue>>
    /\ OnlyChain

\* Agent.assign_task (called at _listen_tasks line 160): one discovery
\* window, the best candidate, one delegate_task
NodeAssign(a) ==
    /\ node_pc[a] = "assign"
    /\ \E candidates \in ChainCandidates : \E sent_ok \in BOOLEAN :
        LET best_matches == _select_best_executors(candidates, 1, a)
        IN  /\ in_flight' = IF sent_ok
                THEN in_flight \cup
                     { Envelope(best_matches[i][1], "task", to_dict(node_task[a].task),
                                node_task[a].inst) : i \in 1..Len(best_matches) }
                ELSE in_flight
            /\ broken' = (broken \/ best_matches = <<>> \/ ~sent_ok)
    /\ node_pc' = [node_pc EXCEPT ![a] = "loop"]
    /\ node_task' = [node_task EXCEPT ![a] = NoInstance]
    /\ UNCHANGED <<instances, node_queue, executed, planned, result_queue>>
    /\ OnlyChain

ChainInit ==
    /\ TaskIdle /\ BatchIdle
    /\ NodeIdle /\ ISEPIdle /\ PureIdle /\ UserIdle

ChainNext ==
    \/ ChainInitiate
    \/ ChainDeliver
    \/ \E a \in ChainAgents : NodeExecute(a)
    \/ \E a \in ChainAgents : NodeAssign(a)

\* the transport thread and the task loop of every node keep running
SpecChain ==
    /\ ChainInit
    /\ [][ChainNext]_vars
    /\ WF_vars(ChainDeliver)
    /\ \A a \in ChainAgents : WF_vars(NodeExecute(a)) /\ WF_vars(NodeAssign(a))


(***************************************************************************)
(* SpecCaps: one CapabilityManager, built from a tag list and then changed *)
(* by add_capability and remove_capability calls.  fn_in holds             *)
(* self.capabilities, fn_k the number of calls and fn_out the last call.   *)
(***************************************************************************)
MaxCapTagLen == 1       \* characters of a tag given to the manager
MaxCapCalls == 3        \* add_capability / remove_capability calls

CapTags == SeqsUpTo(TagChars, MaxCapTagLen)

\* the tags of a list
TagsOf(capabilities) == {capabilities[i] : i \in 1..Len(capabilities)}

\* list(set(...)): the elements of the set once each, in the order the set
\* iterates, which is any order
ListsOfSet(S) == {l \in [1..Cardinality(S) -> S] : TagsOf(l) = S}

\* list.remove(x): drops the first occurrence
list_remove(l, x) ==
    LET i == CHOOSE h \in 1..Len(l) : l[h] = x /\ \A g \in 1..(h - 1) : l[g] # x
    IN  SubSeq(l, 1, i - 1) \o SubSeq(l, i + 1, Len(l))

\* an add_capability that keeps the tag as given
add_capability_as_given(capabilities, tag) ==
    IF tag \notin TagsOf(capabilities) THEN Append(capabilities, tag) ELSE capabilities

\* CapabilityManager.add_capability
add_capability(capabilities, tag) ==
    LET t == lower(tag)
    IN  IF t \notin TagsOf(capabilities) THEN Append(capabilities, t) ELSE capabilities

\* CapabilityManager.remove_capability
remove_capability(capabilities, tag) ==
    LET t == lower(tag)
    IN  IF t \in TagsOf(capabilities) THEN list_remove(capabilities, t) ELSE capabilities

\* CapabilityManager.__init__ on any tag list
CapsInit ==
    /\ \E capability_tags \in SeqsUpTo(CapTags, MaxTags) :
            fn_in \in ListsOfSet(Capabilities(capability_tags))
    /\ fn_k = 0
    /\ fn_out = [op |-> "init", tag |-> <<>>]
    /\ fn_pc = "ready"
    /\ TaskIdle /\ NodeIdle /\ ISEPIdle /\ UserIdle /\ BatchIdle

AddCapability ==
    /\ fn_k < MaxCapCalls
    /\ \E tag \in CapTags :
        /\ fn_in' = add_capability(fn_in, tag)
        /\ fn_out' = [op |-> "add", tag |-> tag]
    /\ fn_k' = fn_k + 1
    /\ UNCHANGED fn_pc
    /\ OnlyPure

RemoveCapability ==
    /\ fn_k < MaxCapCalls
    /\ \E tag \in CapTags :
        /\ fn_in' = remove_capability(fn_in, tag)
        /\ fn_out' = [op |-> "remove", tag |-> tag]
    /\ fn_k' = fn_k + 1
    /\ UNCHANGED fn_pc
    /\ OnlyPure

CapsNext == AddCapability \/ RemoveCapability

SpecCaps == CapsInit /\ [][CapsNext]_vars


(***************************************************************************)
(* SpecBeacon: Beacon.__init__ and Beacon.from_dict as functions of their  *)
(* arguments, of the uuids uuid.uuid4() returns and of time.time().        *)
(***************************************************************************)
BeaconFields == {"beacon_id", "sender", "task_id", "requirement", "ttl", "timestamp"}

\* dict.get(key, default)
GetOr(dict, key, default) == IF key \in DOMAIN dict THEN dict[key] ELSE default

\* Beacon.__init__; uuid is what uuid.uuid4() returns, now int(time.time())
Beacon(sender, requirement, task_id, ttl, uuid, now) ==
    [ beacon_id   |-> uuid,
      sender      |-> sender,
      task_id     |-> IF Falsy(task_id) THEN uuid ELSE task_id,
      requirement |-> requirement,
      ttl         |-> ttl,
      timestamp   |-> now ]

\* Beacon.from_dict; uuid is drawn by the constructor, uuid2 by the default
\* of data.get("beacon_id", ...)
Beacon_from_dict(data, uuid, uuid2, now) ==
    LET beacon == Beacon(GetOr(data, "sender", "unknown"),
                         GetOr(data, "requirement", ""),
                         Get(data, "task_id"),
                         GetOr(data, "ttl", 2), uuid, now)
    IN  [beacon EXCEPT !.beacon_id = GetOr(data, "beacon_id", uuid2),
                       !.timestamp = GetOr(data, "timestamp", now)]

\* the dicts of Beacon.to_dict, complete or with fields missing
BeaconDicts ==
    {[f \in D |-> e[f]] :
        e \in [ beacon_id : {"b1"}, sender : {"a2"}, task_id : {"1", ""},
                requirement : {"math"}, ttl : {2, 3}, timestamp : {5} ],
        D \in SUBSET BeaconFields}

BeaconCalls ==
    [ call : {"init"}, sender : {"a1"}, requirement : {"Plan", "math"},
      task_id : {None, "", "1"}, ttl : {2, 3} ]
    \cup [ call : {"from_dict"}, data : BeaconDicts ]

\* fn_k: two calls of uuid.uuid4(), which return different values, and the clock
BeaconInit ==
    /\ fn_in \in BeaconCalls
    /\ fn_k \in {<<"x1", "x2">>, <<"x2", "x1">>} \X {8, 9}
    /\ fn_out = <<>>
    /\ fn_pc = "ready"
    /\ TaskIdle /\ NodeIdle /\ ISEPIdle /\ UserIdle /\ BatchIdle

ApplyBeacon ==
    /\ fn_pc = "ready"
    /\ fn_out' = IF fn_in.call = "init"
                 THEN Beacon(fn_in.sender, fn_in.requirement, fn_in.task_id,
                             fn_in.ttl, fn_k[1][1], fn_k[2])
                 ELSE Beacon_from_dict(fn_in.data, fn_k[1][1], fn_k[1][2], fn_k[2])
    /\ fn_pc' = "done"
    /\ UNCHANGED <<fn_in, fn_k>>
    /\ OnlyPure

SpecBeacon == BeaconInit /\ [][ApplyBeacon]_vars

(***************************************************************************)
(* Properties                                                              *)
(***************************************************************************)

\* C1: on one node at most one Agent.execute_task call is in progress at any
\* instant, however the task loop, the beacon loop and the transport's
\* dispatch of inbound tasks interleave.
C1_OneExecution == Cardinality(executing) <= 1

\* an execution is in progress while a second task has been delivered
C1_Witness == executing = {"task_loop"} /\ subtask_queue # <<>>

\* C2: a task delivered while the gate is BUSY is never executed locally by
\* the node, neither at once nor after the gate has returned to IDLE.
C2_BusyTaskNeverExecuted == tpc = "exec" => ~cur.busy

\* C3: from subtask_id = 0 with a decomposition of N steps, the terminal
\* predicate subtask_id = N + 1 holds after exactly N + 1 execute_task
\* transitions, final_result is non-empty there and empty while
\* subtask_id <= N.
C3_Lifecycle ==
    /\ IsTerminal(task) =>
            transitions = Len(task.steps) + 1 /\ task.final_result # ""
    /\ task.subtask_id <= Len(task.steps) => task.final_result = ""

\* C4: in every reachable Task state final_result is non-empty if and only
\* if subtask_id = len(steps) + 1.
C4_FinalIffTerminal == (task.final_result # "") <=> IsTerminal(task)

\* C5: every completed decompose or execute transition adds exactly 1 to
\* subtask_id, also a Decompose whose Decomposer or DAGGenerator reports
\* failure (steps stays empty, subtask_id becomes 1); serializing the task
\* for a delegation or relay leaves subtask_id as it is.
C5_SubtaskIdStep ==
    [][ /\ last'.op \in {"decompose", "execute"} =>
                task'.subtask_id = task.subtask_id + 1
        /\ (last'.op = "decompose" /\ ~last'.dag_success) =>
                task'.steps = <<>> /\ task'.subtask_id = 1
        /\ last'.op = "send" =>
                task'.subtask_id = task.subtask_id ]_vars

\* a Decompose whose Decomposer failed has completed
C5_Witness ==
    /\ last.op = "decompose" /\ ~last.success
    /\ task.subtask_id = 1 /\ task.steps = <<>>

\* C6: every (responder, score) pair broadcast_and_collect(B) returns comes
\* from a BeaconResponse whose task_id is B.task_id, whatever responses with
\* other task ids arrive meanwhile.
C6_CollectedForBeacon ==
    (cpc = "idle" /\ calls > 0) =>
        /\ Len(returned) = Len(read_responses)
        /\ \A i \in 1..Len(returned) :
            /\ read_responses[i].task_id = cbeacon.task_id
            /\ returned[i] = << read_responses[i].responder_id,
                                read_responses[i].match_score >>

\* a call returned candidates although a response for another task id was
\* dispatched during its window
C6_Witness == cpc = "idle" /\ calls > 0 /\ returned # <<>> /\ foreign

\* first index at which v occurs in list s
FirstIndex(s, v) == CHOOSE i \in 1..Len(s) : s[i] = v /\ \A j \in 1..(i - 1) : s[j] # v

\* C7: the vote returns a value with the largest number of occurrences in
\* the answer list and, among the values tied for it, the one received
\* first; ["4","4","5"] gives "4" and the tie ["a","b"] gives "a".
C7_PluralityFirstInserted ==
    (fn_pc = "done" /\ fn_in # <<>>) =>
        /\ \E i \in 1..Len(fn_in) : fn_in[i] = fn_out
        /\ \A i \in 1..Len(fn_in) :
            /\ Occurrences(fn_in, fn_in[i]) <= Occurrences(fn_in, fn_out)
            /\ (Occurrences(fn_in, fn_in[i]) = Occurrences(fn_in, fn_out)
                    /\ fn_in[i] # fn_out)
                => FirstIndex(fn_in, fn_out) < i
        /\ fn_in = <<"4", "4", "5">> => fn_out = "4"
        /\ fn_in = <<"a", "b">> => fn_out = "a"
        /\ fn_in = <<"b", "a">> => fn_out = "b"

\* the vote ran on a tie: "b" and "a" once each, "b" received first
C7_Witness == fn_pc = "done" /\ fn_in = <<"b", "a">> /\ fn_out = "b"

\* the scores of a candidate list are non-increasing
NonIncreasing(s) == \A i \in 1..(Len(s) - 1) : s[i][2] >= s[i + 1][2]

\* C10: executor selection returns min(K, number of candidates) entries of
\* the candidate list in non-increasing score order, none of them outscored
\* by an entry left out, and when this node is among the candidates tied for
\* the top score the first entry returned is this node.
C10_SelectTopK ==
    fn_pc = "done" =>
        /\ Len(fn_out) = Min(fn_k, Len(fn_in))
        /\ \A e \in CandidateIds \X CandidateScores :
                Occurrences(fn_out, e) <= Occurrences(fn_in, e)
        /\ NonIncreasing(fn_out)
        /\ \A i \in 1..Len(fn_out) :
                Cardinality({j \in 1..Len(fn_in) : fn_in[j][2] > fn_out[i][2]}) < i
        /\ (fn_k >= 1 /\ \E j \in 1..Len(fn_in) :
                /\ fn_in[j][1] = Self
                /\ \A m \in 1..Len(fn_in) : fn_in[m][2] <= fn_in[j][2])
            => fn_out[1][1] = Self
        /\ (fn_in = << <<"A", 800>>, <<Self, 800>>, <<"B", 600>> >> /\ fn_k = 1)
            => fn_out = << <<Self, 800>> >>

\* the spec's example: self tied for the top behind A, K = 1
C10_Witness ==
    /\ fn_pc = "done" /\ fn_k = 1
    /\ fn_in = << <<"A", 800>>, <<Self, 800>>, <<"B", 600>> >>
    /\ fn_out = << <<Self, 800>> >>

\* C8: if fewer than consensus_count results have been received for the
\* problem when its timer fires, process_task returns "[TIMEOUT]", whatever
\* arrives after the timer has fired.
C8_TimeoutIsFinal ==
    \A i \in 1..NumProblems :
        (fired_short[i] /\ ret[i] \notin {"<pending>", "<raised>"})
            => ret[i] = "[TIMEOUT]"

\* C9: once the listener has published a vote winner for the current
\* problem (final_result set, event signalled), final_result is never
\* overwritten by "[TIMEOUT]".
C9_WinnerNotOverwritten ==
    [][ (published /\ final_result # "[TIMEOUT]") => final_result' # "[TIMEOUT]" ]_vars

\* the records of all append calls, in the order they were written
RECURSIVE Flatten(_)
Flatten(file) == IF file = <<>> THEN <<>> ELSE Head(file) \o Flatten(Tail(file))

\* C11: a batch of n problems that each complete by vote or timeout makes
\* exactly ceil(n/5) append calls: one of exactly 5 records after every 5th
\* completed problem and a last one of the n mod 5 remaining records; the
\* records are written in input order.
C11_Checkpoints ==
    raised = 0 =>
        /\ \A c \in 1..Len(log) :
                c <= processed_count \div CheckpointEvery =>
                    Len(log[c]) = CheckpointEvery
        /\ mpc = "next" => Len(log) = processed_count \div CheckpointEvery
        /\ mpc = "done" =>
            LET n == processed_count
            IN  /\ n = Min(max_process, tasks)
                /\ Len(log) = (n + CheckpointEvery - 1) \div CheckpointEvery
                /\ n % CheckpointEvery # 0 =>
                        Len(log[Len(log)]) = n % CheckpointEvery
                /\ Len(Flatten(log)) = n
                /\ \A i \in 1..n : Flatten(log)[i].unique_id = i

\* 12 problems, none raised: three append calls of 5, 5 and 2 records
C11_Witness ==
    /\ mpc = "done" /\ raised = 0 /\ processed_count = 12
    /\ Len(log) = 3
    /\ Len(log[1]) = 5 /\ Len(log[2]) = 5 /\ Len(log[3]) = 2

\* C12: after an exception in execute_task, submit_result or assign_task the
\* gate is IDLE and beacon listening is enabled before the task loop polls
\* again; the gate is never BUSY while the task loop waits for a task.
C12_GateIdleAtPoll ==
    tpc = "poll" => ~first_task_received /\ beacon_enabled

\* the except clause has run after a failed execute_task and the loop polls
C12_Witness ==
    /\ tpc = "poll" /\ cur.type = "task" /\ new_task = NoMsg
    /\ ~first_task_received /\ beacon_enabled

\* C13: after a non-terminal transition the gate is still BUSY (beacon
\* listening paused) during the discovery window and when the delegation
\* is sent; it returns to IDLE only afterwards.
C13_BusyUntilDelegated ==
    tpc \in {"assign", "collect"} => first_task_received /\ ~beacon_enabled

\* the TaskResult messages among the messages handed to the transport
Results(msgs) == SelectSeq(msgs, LAMBDA m : m.type = "task_result")

\* C14: a transition that leaves the task terminal makes the node emit exactly
\* one TaskResult, to the task's user_id with final_result and the
\* previous_results trace, and no delegation; a non-terminal one emits no
\* TaskResult.
C14_OneResultIffTerminal ==
    [][ /\ (tpc = "after" /\ tpc' \notin {"after", "except"}) =>
              IF IsTerminal(new_task)
              THEN /\ sent' = Append(sent,
                        [ type |-> "task_result", target |-> new_task.user_id,
                          data |-> [ target_id |-> new_task.user_id,
                                     executer_id |-> Self,
                                     result |-> new_task.final_result,
                                     previous_results |-> new_task.previous_results ] ])
                   /\ tpc' = "resume"
              ELSE sent' = sent /\ tpc' = "assign"
        /\ tpc # "after" => Results(sent') = Results(sent)
        /\ tpc' \in {"assign", "collect"} => ~IsTerminal(new_task') ]_vars

\* a chain of one step has been executed to the end and its result submitted
C14_Witness ==
    /\ tpc = "resume" /\ IsTerminal(new_task) /\ new_task.final_result # ""
    /\ Len(Results(sent)) = 1

\* C15: the collector computes and publishes a vote only when the answer list
\* holds exactly consensus_count answers, and once per problem.
C15_VoteOnceAtThreshold ==
    [][ answers' # answers =>
            Len(current_answers) = CotNum /\ ~published ]_vars

\* C16: a BeaconResponse that arrives after the window of its beacon has been
\* read is in the result of no broadcast_and_collect call.
C16_LateResponseNeverRead ==
    \A i \in 1..Len(read_responses) : ~read_responses[i].late

\* the queue a name stands for
QueueOf(q) ==
    IF q = "beacon" THEN beacon_queue
    ELSE IF q = "task" THEN subtask_queue ELSE task_result_queue

\* C17: on an empty queue receive_beacon, receive_task and receive_result
\* return the (None, None, None) sentinel and change no queue; on a non-empty
\* queue they return and remove the oldest message, so every queued message
\* is returned once, in arrival order.
C17_ReceiveOldestOrSentinel ==
    /\ \A q \in QueueNames : enqueued[q] = dequeued[q] \o QueueOf(q)
    /\ received.queue # "" =>
          IF received.was_empty
          THEN received.ret = NoMsg
          ELSE /\ received.ret # NoMsg
               /\ received.ret = dequeued[received.queue][Len(dequeued[received.queue])]

\* two results were queued and both were returned, oldest first, and the
\* next receive_result timed out on the empty queue
C17_Witness ==
    /\ Len(dequeued["task_result"]) = 2
    /\ dequeued["task_result"][1].sender # dequeued["task_result"][2].sender
    /\ received = [queue |-> "task_result", was_empty |-> TRUE, ret |-> NoMsg]

\* C18: the receiver acknowledges a message only after it has parsed it and
\* dispatched it to a registered handler, so send returns true only for a
\* message for which a handler ran at the target, never for one with a
\* missing envelope field or an unknown msg_type.
C18_AckAfterDispatch ==
    \A n \in NeighborIds :
        /\ ack[n] = "success" => handler_ran[n]
        /\ send_ret[n] = "true" => handler_ran[n] /\ bc_msg_type \in Handlers

\* C19: broadcast makes exactly one send to every neighbor not in exclude,
\* in order; a failed send neither stops the remaining sends nor is retried.
C19_BroadcastEachOnce ==
    /\ \A n \in NeighborIds :
        /\ attempts[n] <= 1
        /\ n \in exclude => attempts[n] = 0
        /\ (spc = "done" /\ n \notin exclude) => attempts[n] = 1
    /\ \A i, j \in 1..Len(Neighbors) :
        (i < j /\ Neighbors[i] \notin exclude /\ attempts[Neighbors[j]] = 1) =>
            attempts[Neighbors[i]] = 1

\* the send to the first neighbor failed, the other two were still attempted
C19_Witness ==
    /\ spc = "done" /\ exclude = {}
    /\ send_ret["n1"] = "false" /\ send_ret["n2"] = "false"
    /\ attempts = [n \in NeighborIds |-> 1]
    /\ send_ret["n3"] = "true"

\* C20: every mutation of the vote accumulator (answer list, detail list,
\* final_result) is made by a thread that holds self.lock, like every
\* mutation of the other shared resources, so no two threads write it
\* without synchronization.
C20_AccumulatorUnderLock ==
    [][ ( \/ current_answers' # current_answers
          \/ full_answers' # full_answers
          \/ final_result' # final_result ) => lpc = "lock" ]_vars

\* C21: every process_task call eventually returns or raises; the wait is
\* always ended by the collector reaching the threshold or by the timer.
C21_ProcessTaskReturns ==
    (index = NumProblems /\ mpc = "clear") ~> (ret[NumProblems] # "<pending>")

\* process_task returned for the last problem after its timer had fired
C21_Witness ==
    /\ ret[NumProblems] = "[TIMEOUT]"
    /\ timers[NumProblems] = "done"

\* C22: once a problem has finished processing (vote, timeout or error
\* record), fewer than 5 records are buffered without having been appended
\* to the log.
C22_BufferBelowCheckpoint ==
    mpc = "next" => Len(tasks_to_save) < CheckpointEvery

\* C23: an exception raised while one message is handled ends none of the
\* polling loops: a loop stops only when the node is stopped, and while the
\* node runs a message that waits for a loop is taken up by it.
C23_LoopsSurviveExceptions ==
    /\ [](\A l \in Loops : loop_pc[l] = "stopped" => ~running)
    /\ \A l \in Loops :
        (failed[l] /\ inbox[l] > 0) ~> (loop_pc[l] = "handle" \/ ~running)

\* handling a message raised in a loop and the loop handled a later message
C23_Witness ==
    /\ running
    /\ \E l \in Loops : failed[l] /\ handled_after[l]

\* C24: the frame of an envelope round-trips: the four prefix bytes are the
\* big-endian byte length of the UTF-8 JSON body, and a receiver that has
\* read the prefix and then that many bytes holds exactly the bytes sent.
C24_FrameRoundTrip ==
    /\ fn_pc \in {"sent", "body", "parsed", "dropped"} =>
        /\ Len(fn_out.prefix) = 4
        /\ from_bytes(fn_out.prefix) = Len(fn_out.body)
        /\ fn_out.body = encode_utf8(json_dumps(fn_in))
    /\ fn_pc = "parsed" =>
        /\ fn_out.msg_bytes = fn_out.body
        /\ fn_out.wire = <<>>

\* an envelope with an escaped character was reassembled from several chunks
C24_Witness ==
    /\ fn_pc = "parsed"
    /\ fn_in = <<"e'", "a">>
    /\ Len(fn_out.msg_bytes) = 9

\* C25: match(r) is 1.0 whenever r equals a tag of the capability set (as
\* given to the constructor or as stored), and lies in [0, 1] for every
\* requirement and every capability set, the empty one included.
C25_MatchExactAndBounded ==
    fn_pc = "done" =>
        /\ fn_out \in 0..1000
        /\ (\E i \in 1..Len(fn_in) : fn_k = fn_in[i]) => fn_out = 1000
        /\ fn_k \in Capabilities(fn_in) => fn_out = 1000

\* a requirement in upper case equal to the second of two tags scored 1.0
C25_Witness ==
    /\ fn_pc = "done"
    /\ fn_in = <<<<"a">>, <<"B", "a">>>>
    /\ fn_k = <<"B", "a">>
    /\ fn_out = 1000

\* C26: serialization round-trips: for every Task x that the protocol
\* holds as an object, the Task built through the legacy constructor
\* included, from_dict(to_dict(x)) serializes to the same dictionary as x.
C26_TaskRoundTrip ==
    form = "object" => to_dict(from_dict(to_dict(task))) = to_dict(task)

\* C27: when the configuration file is missing at the start of an agent or
\* user process, no node is started: neither the transport server nor the
\* listener loops.
C27_MissingConfigFatal ==
    config_file = "missing" => (~server_started /\ ~loops_started)

\* C28: for every list of registered agents and every task with at least
\* one requirement, execute_task returns without raising, and the
\* aggregated result has exactly one entry for each requirement, which is
\* the voted result of the agents or an [ERROR] entry.
C28_OneEntryPerRequirement ==
    (fn_pc = "done" /\ Len(fn_in[2]) >= 1) =>
        /\ fn_out.outcome = "returned"
        /\ Len(fn_out.entries) = Len(fn_in[2])
        /\ \A i \in 1..Len(fn_out.entries) :
            /\ fn_out.entries[i].number = i
            /\ ~fn_out.entries[i].result.raised
            /\ \/ fn_out.entries[i].result.marker = "[ERROR]"
               \/ \E a \in 1..Len(fn_in[1]) :
                    fn_out.entries[i].result =
                        cot_result(fn_in[1], a, Symphony_decompose_task(fn_in[2])[i])

\* two requirements: one is voted among two agents of which one raised, the
\* other has no suitable agent
C28_Witness ==
    /\ fn_pc = "done"
    /\ Len(fn_in[2]) = 2 /\ Len(fn_in[1]) = 2
    /\ fn_in[1][1].base_model = "raises"
    /\ fn_out.outcome = "returned"
    /\ fn_out.entries[1].result.marker = ""
    /\ fn_out.entries[2].result.marker = "[ERROR]"

\* C29: while the gate is BUSY (beacon listening paused around
\* execute_task) the node handles no beacon: no step of the beacon loop
\* computes and sends a BeaconResponse while beacon_enabled is cleared.
C29_NoBeaconWhileBusy ==
    [][(bpc = "handle" /\ Len(sent') = Len(sent) + 1) => beacon_enabled]_vars

\* C30: previous_results is append-only.  Every transition keeps the
\* entries it had, in order; a successful Decompose appends exactly the
\* background, a failed one nothing; executing step k appends exactly one
\* entry "<instruction> Answer: <result>"; so after a successful Decompose
\* and k executed steps the list has k + 1 entries.
C30_AppendOnly ==
    /\ [][LET old == task.previous_results
              new == task'.previous_results
          IN  /\ Len(new) >= Len(old)
              /\ SubSeq(new, 1, Len(old)) = old
              /\ form' = "dict" => new = old
              /\ (form' = "object" /\ task.subtask_id = 0) =>
                    new = IF last'.success THEN Append(old, Background) ELSE old
              /\ (form' = "object" /\ task.subtask_id # 0) =>
                    \E result \in GeneratorOutputs :
                        new = Append(old, task.steps[task.subtask_id][1]
                                            \o " Answer: " \o result)]_vars
    /\ [](task.subtask_id >= 1 =>
            \/ Len(task.previous_results) = task.subtask_id
            \/ /\ task.previous_results = <<>>
               /\ task.subtask_id = 1
               /\ task.steps = <<>>)

\* a successful Decompose and two executed steps: three entries
C30_Witness ==
    /\ form = "object"
    /\ task.subtask_id = 3
    /\ Len(task.steps) >= 2
    /\ Len(task.previous_results) = 3
    /\ task.previous_results[1] = Background

\* what the handler registered for the msg_type of a message does to the
\* client: the (sender_id, msg_type, data) entry at the end of the queue of
\* that type, or the response at the end of the pending entry of its task_id
Routed(client, message) ==
    LET entry == [sender |-> message.sender_id, type |-> message.msg_type,
                  data |-> message.data]
    IN  CASE message.msg_type = "beacon" ->
                [client EXCEPT !.beacon_queue = Append(@, entry)]
          [] message.msg_type = "task" ->
                [client EXCEPT !.subtask_queue = Append(@, entry @@ [busy |-> FALSE])]
          [] message.msg_type = "task_result" ->
                [client EXCEPT !.task_result_queue = Append(@, entry @@ [prob |-> 0])]
          [] message.msg_type = "beacon_response" ->
                IF message.data.task_id \in DOMAIN client.pending_tasks
                THEN [client EXCEPT !.pending_tasks[message.data.task_id] =
                                        Append(@, message.data)]
                ELSE client

\* the message has a non-empty msg_type and sender_id and has data
Dispatchable(message) ==
    /\ {"msg_type", "sender_id", "data"} \subseteq DOMAIN message
    /\ message.msg_type # "" /\ message.sender_id # ""

\* C31 as stated: a message with any envelope field missing, or with an
\* unregistered msg_type, invokes no handler and changes no queue and no
\* map entry.
C31_AnyMissingFieldDropped ==
    [][(DOMAIN fn_k' # EnvelopeFields \/ fn_k'.msg_type \notin Handlers) =>
            (fn_out' = None /\ fn_in' = fn_in)]_vars

\* C31, amended: a message that has msg_type, sender_id and data, the first
\* two non-empty, is dispatched to exactly the handler registered for its
\* msg_type; a message that lacks one of the three, or whose msg_type is
\* not registered, invokes no handler and changes no queue and no map
\* entry.  (target_id and timestamp are not examined.)
C31_DispatchByType ==
    [][IF Dispatchable(fn_k') /\ fn_k'.msg_type \in Handlers
       THEN fn_out' = fn_k'.msg_type /\ fn_in' = Routed(fn_in, fn_k')
       ELSE fn_out' = None /\ fn_in' = fn_in]_vars

\* a beacon response reached the open window, a task result its queue
C31_Witness ==
    /\ fn_pc = 2
    /\ fn_out = "task_result"
    /\ Len(fn_in.task_result_queue) = 1
    /\ Len(fn_in.pending_tasks["1"]) = 1

\* C32: when discovery returns no candidates, initiate_task delegates the
\* task to no one and raises; process_task_batch then appends an "[ERROR]"
\* record with empty full_answers for that problem and goes on with the
\* next problem.
C32_NoCandidatesErrorRecord ==
    /\ [][(mpc = "initiate" /\ mpc' # "initiate" /\ discovered'[index] = <<>>) =>
            (mpc' = "error" /\ initiated' = initiated)]_vars
    /\ [][(mpc = "error" /\ mpc' # "error") =>
            /\ mpc' = "next"
            /\ index' = index
            /\ log' = log
            /\ tasks_to_save' = Append(tasks_to_save,
                    [unique_id |-> index, final_answer |-> "[ERROR]",
                     full_answers |-> <<>>])]_vars
    /\ [](mpc = "error" => (index \notin initiated /\ discovered[index] = <<>>))
    /\ []((mpc = "next" /\ index < NumProblems) => ENABLED BatchNext)

\* the first problem found no candidates and has its error record; the
\* second problem has been delegated
C32_Witness ==
    /\ index = 2
    /\ discovered[1] = <<>> /\ 1 \notin initiated
    /\ tasks_to_save # <<>>
    /\ tasks_to_save[1] = [unique_id |-> 1, final_answer |-> "[ERROR]",
                           full_answers |-> <<>>]
    /\ 2 \in initiated

\* the TaskResults of instance i in the user's task_result_queue
ResultsOf(i) == {k \in 1..Len(result_queue) : result_queue[k].inst = i}

\* the steps executed so far are 1, 2, ..., each once
StepsRun(i) == executed[i] = [k \in 1..Len(executed[i]) |-> k]

EmittedResults ==
    {m \in in_flight : m.msg_type = "task_result"} \cup
    {result_queue[k] : k \in 1..Len(result_queue)}

\* C34: every TaskResult a node emits carries the result of the final step of
\* the task's step list; a task whose decomposition failed or returned no
\* step yields no TaskResult
C34_ResultFromFinalStep ==
    \A m \in EmittedResults :
        /\ planned[m.inst] >= 1
        /\ executed[m.inst] = [k \in 1..planned[m.inst] |-> k]
        /\ m.data.result # ""

\* C35: every answer the listener appends to current_answers while problem
\* index is being processed comes from a TaskResult produced for problem
\* index; a late result of an earlier problem is not counted for a later one
C35_AnswersOfCurrentProblem ==
    [][(lpc = "recv" /\ lpc' = "lock") =>
            /\ lmsg'.prob = index
            /\ current_answers' = Append(current_answers, lmsg'.data.result)]_vars

\* C36: task_id, user_id and original_problem are the same before and after
\* every decompose transition, every execute transition and every hop, and
\* steps is the same before and after every execute transition: the user_id a
\* terminal task carries is the one the creating user gave it
C36_IdentityFieldsKept ==
    [][ /\ task'.task_id = task.task_id
        /\ task'.user_id = task.user_id
        /\ task'.original_problem = task.original_problem
        /\ (last'.op = "execute" => task'.steps = task.steps) ]_vars

C36_Witness ==
    /\ IsTerminal(task) /\ last.op = "execute" /\ transitions = 3
    /\ task.task_id = "t1" /\ task.user_id = "u2" /\ task.original_problem = "p2"
    /\ Len(task.steps) = 2

\* C37: when process_task_batch has returned, the output log holds exactly
\* one record per problem the loop went through, in input order, whatever
\* the outcomes were and also when a checkpoint write failed
C37_OneRecordPerProblem ==
    mpc = "done" =>
        /\ Len(Flatten(log)) = index
        /\ \A i \in 1..Len(Flatten(log)) : Flatten(log)[i].unique_id = i

\* C38: after any add_capability / remove_capability calls on a manager built
\* from any tag list, no tag occurs twice in the capability list and every
\* tag is lowercase; adding a tag that is present in some letter case and
\* removing a tag that is absent leave the list as it was
C38_LowercaseNoDuplicates ==
    /\ [](/\ \A i, j \in 1..Len(fn_in) : fn_in[i] = fn_in[j] => i = j
          /\ \A i \in 1..Len(fn_in) : lower(fn_in[i]) = fn_in[i])
    /\ [][(fn_k' = fn_k + 1 /\ fn_out'.op = "add" /\
           lower(fn_out'.tag) \in TagsOf(fn_in)) => fn_in' = fn_in]_vars
    /\ [][(fn_k' = fn_k + 1 /\ fn_out'.op = "remove" /\
           lower(fn_out'.tag) \notin TagsOf(fn_in)) => fn_in' = fn_in]_vars
    /\ [][(fn_k' = fn_k + 1 /\ fn_out'.op = "add" /\
           lower(fn_out'.tag) \notin TagsOf(fn_in)) =>
                fn_in' = Append(fn_in, lower(fn_out'.tag))]_vars
    /\ [][(fn_k' = fn_k + 1 /\ fn_out'.op = "remove") =>
                TagsOf(fn_in') = TagsOf(fn_in) \ {lower(fn_out'.tag)}]_vars

\* "B" was added to a list that holds "b": the list is unchanged
C38_Witness ==
    /\ fn_pc = "ready" /\ fn_k = 2
    /\ fn_out = [op |-> "add", tag |-> <<"B">>]
    /\ fn_in = << <<"a">>, <<"b">> >>

\* C39: a Beacon built without a task_id has task_id equal to its beacon_id,
\* and so has a Beacon that from_dict decodes from a dict with a beacon_id
\* and without a task_id
C39_TaskIdDefaultsToBeaconId ==
    fn_pc = "done" =>
        /\ (fn_in.call = "init" /\ fn_in.task_id = None) =>
                fn_out.task_id = fn_out.beacon_id
        /\ (fn_in.call = "from_dict" /\ "beacon_id" \in DOMAIN fn_in.data
                /\ "task_id" \notin DOMAIN fn_in.data) =>
                fn_out.task_id = fn_out.beacon_id

====
